---- MODULE Spec2Model ----
(***************************************************************************)
(* Position generation of RedditSentimentAlpha (src/src/alpha.py).         *)
(*                                                                         *)
(* An alpha object holds an observation store (sentiment_df) and a         *)
(* leverage.  get(start, end) asks the calendar for the trading days of    *)
(* the range, filters the store to the range, pivots it to a               *)
(* (date x gvkeyiid) table, aligns it to the trading days with a bounded   *)
(* forward fill, normalises every row, scales, shifts by one session,      *)
(* clips and drops the columns that are no 9-character keys.               *)
(*                                                                         *)
(* Numbers.  Sentiments are integers (the row normalisation is invariant   *)
(* under a common factor).  A weight is held as an integer number of       *)
(* 1/WeightDen, a position as an integer number of PositionUnit =          *)
(* NOTIONAL_BASE / Scale currency units; both are exact for every input    *)
(* the model draws.  A table cell is {} when it is missing (NaN) and {v}   *)
(* when it holds the number v.                                             *)
(*                                                                         *)
(* validate(start, end) calls get from 100 and from 50 calendar days       *)
(* before start and compares the two matrices over the sessions both have. *)
(*                                                                         *)
(* Around the alpha: the lazily loaded collaborators and the generate_alpha *)
(* endpoint of the MCP server (src/src/mcp_server.py), the submission       *)
(* script (src/submit_to_finter.py), the daily aggregation of the sentiment *)
(* engine (src/src/sentiment.py), and get_universe and build_ticker_mapping *)
(* of the FINTER client (src/src/finter_client.py).  Each has its own       *)
(* variables and its own specification; the others stay as they start.     *)
(***************************************************************************)
EXTENDS Integers, Sequences, FiniteSets, Bags, TLC

VARIABLES
    sentiment_df,       \* the rows of the observation store the alpha holds
    date_dtype,         \* the dtype of the store's date column
    leverage,           \* the alpha's leverage
    calls,              \* the calls of get made by the caller, in order
    validations,        \* the calls of validate made by the caller, in order
    calendar_requests,  \* number of requests sent to the /calendar endpoint
    module_globals,     \* mcp_server: _scraper, _sentiment_engine and _finter
    finter_module,      \* the finter of finter_client once the module is imported
    constructed,        \* the number of objects constructed of each class
    threads,            \* mcp_server: the position of each request thread
    handed_out,         \* mcp_server: the objects the getters have returned
    responses,          \* mcp_server: the answers of /tools/generate_alpha
    runs,               \* the runs of submit_to_finter.main, in order
    aggregations,       \* the calls of calculate_daily_sentiment, in order
    universes,          \* the calls of FinterAPI.get_universe, in order
    ticker_cache,       \* FinterAPI._ticker_to_gvkeyiid_cache
    api_requests,       \* number of requests the FinterAPI object has sent
    mappings            \* the calls of build_ticker_mapping, in order

alpha_vars ==
    <<sentiment_df, date_dtype, leverage, calls, validations, calendar_requests>>

server_vars ==
    <<module_globals, finter_module, constructed, threads, handed_out, responses>>

script_vars == <<runs>>

engine_vars == <<aggregations>>

finter_vars == <<universes, ticker_cache, api_requests, mappings>>

vars == <<alpha_vars, server_vars, script_vars, engine_vars, finter_vars>>

-----------------------------------------------------------------------------
(* Bounds of the model *)

\* number of records the observation store holds at most
MaxObs == 2

\* the dates of the observations, as YYYYMMDD integers: Friday 5, Saturday 6,
\* Monday 8 and Tuesday 9 January 2024
ObsDates == {20240105, 20240106, 20240108, 20240109}

\* the (start, end) arguments of the calls of get: the whole window, a later
\* start, the weekend alone, an earlier end, a start on the weekend
Requests ==
    { <<20240105, 20240109>>, <<20240108, 20240109>>, <<20240106, 20240107>>,
      <<20240105, 20240108>>, <<20240106, 20240109>> }

\* the requests made of an alpha whose store changes between two calls
PairRequests ==
    { <<20240105, 20240109>>, <<20240108, 20240109>>, <<20240105, 20240108>> }

\* Observations and requests over eleven sessions (Monday 1 to Monday 15
\* January 2024), for the forward fill: observations on the first, the second
\* and the seventh session; requests from the first, the second and the
\* third session
FillObsDates == {20240101, 20240102, 20240109}

FillKeys == {"001690001", "001666010"}

FillRequests ==
    { <<20240101, 20240115>>, <<20240102, 20240115>>, <<20240103, 20240115>> }

\* Observations and requests of validate: validate(20240301, .) runs get from
\* Wednesday 22 November 2023 and from Thursday 11 January 2024.  The
\* observations lie on the last session before the later start (Wednesday 10
\* January), inside the fill horizon after it (Friday 12 January) and beyond
\* it (Monday 22 January).
ValidateObsDates == {20240110, 20240112, 20240122}

ValidateRequests == { <<20240301, 20240301>>, <<20240301, 20240305>> }

\* the years of the start dates validate's lookback is computed for: a common
\* year, a leap year and a century year that is no leap year
LookbackYears == {2023, 2024, 2100}

\* Observations and requests of an alpha whose calendar resolver may fail
CalendarObsDates == {20240105, 20240108}

CalendarKeys == {"001690001"}

CalendarRequests == { <<20240108, 20240109>> }

\* Observations, leverages and requests for the gross exposure of a row:
\* sentiments -1 and 5 on Friday 5 and Monday 8 January 2024, leverage 0.5,
\* 1.0 and 2.0
ExposureObsDates == {20240105, 20240108}

ExposureSentiments == {-1, 5}

ExposureLeverages ==
    { [num |-> 1, den |-> 2], [num |-> 1, den |-> 1], [num |-> 2, den |-> 1] }

ExposureRequests == { <<20240105, 20240109>>, <<20240108, 20240109>> }

-----------------------------------------------------------------------------
(* Program constants *)

NOTIONAL_BASE == 100000000

MAX_POSITION == 100000000

FFILL_LIMIT == 5

GVKEYIID_LEN == 9

\* validate's threshold, in currency units
THRESHOLD == 1

\* validate's lookbacks, in calendar days
LOOKBACK_DAYS_1 == 100

LOOKBACK_DAYS_2 == 50

\* the security keys of the observations: two well-formed ones (those of the
\* test data) and a malformed one
Keys == {"001690001", "001666010", "AAPL"}

\* sentiment values of the observations
Sentiments == {-1, 2}

\* leverage values, as fractions num/den: 1.0 (the default) and 2.0
Leverages == { [num |-> 1, den |-> 1], [num |-> 2, den |-> 1] }

-----------------------------------------------------------------------------
(* Arithmetic helpers *)

Abs(x) == IF x < 0 THEN -x ELSE x

Max(a, b) == IF a >= b THEN a ELSE b

Min(a, b) == IF a <= b THEN a ELSE b

RECURSIVE Gcd(_, _)
Gcd(a, b) == IF b = 0 THEN a ELSE Gcd(b, a % b)

Lcm(a, b) == (a * b) \div Gcd(a, b)

RECURSIVE LcmUpTo(_)
LcmUpTo(n) == IF n <= 1 THEN 1 ELSE Lcm(n, LcmUpTo(n - 1))

RECURSIVE SumOver(_, _)
\* sum of f[x] over the finite set S
SumOver(S, f) ==
    IF S = {} THEN 0
    ELSE LET x == CHOOSE y \in S : TRUE IN f[x] + SumOver(S \ {x}, f)

\* the smallest and the largest member of a finite non-empty set of integers
SetMin(S) == CHOOSE x \in S : \A y \in S : x <= y

SetMax(S) == -SetMin({-x : x \in S})

RECURSIVE RangeMax(_, _, _)
\* the largest of f[i] over i in lo..hi, lo <= hi
RangeMax(f, lo, hi) ==
    IF lo = hi THEN f[lo]
    ELSE LET mid == (lo + hi) \div 2
         IN Max(RangeMax(f, lo, mid), RangeMax(f, mid + 1, hi))

RECURSIVE SumRange(_, _, _)
\* sum of f[i] over i in lo..hi
SumRange(f, lo, hi) ==
    IF lo > hi THEN 0
    ELSE IF lo = hi THEN f[lo]
    ELSE LET mid == (lo + hi) \div 2
         IN SumRange(f, lo, mid) + SumRange(f, mid + 1, hi)

\* largest row sum of absolute sentiments the inputs can produce
MaxRowSum == Cardinality(Keys) * SetMax({Abs(s) : s \in Sentiments})

\* a weight w is held as the integer w * WeightDen
WeightDen == LcmUpTo(MaxRowSum)

RECURSIVE LcmOfDens(_)
LcmOfDens(L) ==
    IF L = {} THEN 1
    ELSE LET l == CHOOSE y \in L : TRUE IN Lcm(l.den, LcmOfDens(L \ {l}))

\* a position p is held as the integer p * Scale / NOTIONAL_BASE
Scale == WeightDen * LcmOfDens(Leverages)

\* MAX_POSITION in position units
MaxPositionUnits == (MAX_POSITION \div NOTIONAL_BASE) * Scale

\* the largest number of position units that is at most THRESHOLD currency units
ThresholdUnits == (THRESHOLD * Scale) \div NOTIONAL_BASE

-----------------------------------------------------------------------------
(* Dates: pd.to_datetime(str(n)) of a YYYYMMDD integer, as a day number *)

\* days from 1970-01-01 to the civil date y-m-d
DaysFromCivil(y, m, d) ==
    LET yy  == IF m <= 2 THEN y - 1 ELSE y
        era == yy \div 400
        yoe == yy - era * 400
        mp  == (m + 9) % 12
        doy == (153 * mp + 2) \div 5 + d - 1
        doe == yoe * 365 + yoe \div 4 - yoe \div 100 + doy
    IN era * 146097 + doe - 719468

to_datetime(n) == DaysFromCivil(n \div 10000, (n \div 100) % 100, n % 100)

\* the civil date <<y, m, d>> of a day number
CivilFromDays(z) ==
    LET zz  == z + 719468
        era == zz \div 146097
        doe == zz - era * 146097
        yoe == (doe - doe \div 1460 + doe \div 36524 - doe \div 146096) \div 365
        doy == doe - (365 * yoe + yoe \div 4 - yoe \div 100)
        mp  == (5 * doy + 2) \div 153
        d   == doy - (153 * mp + 2) \div 5 + 1
        m   == IF mp < 10 THEN mp + 3 ELSE mp - 9
        y   == yoe + era * 400 + (IF m <= 2 THEN 1 ELSE 0)
    IN <<y, m, d>>

\* int(ts.strftime('%Y%m%d')) of a day number
strftime_int(day) ==
    LET c == CivilFromDays(day) IN c[1] * 10000 + c[2] * 100 + c[3]

\* the lookback taken on the YYYYMMDD integer itself
earlier_start_by_integer(start, days) == start - days

\* validate, lines 116-124: the YYYYMMDD integer of the day that lies days
\* calendar days before start
earlier_start(start, days) == strftime_int(to_datetime(start) - days)

\* Monday = 0 ... Sunday = 6
dayofweek(day) == (day + 3) % 7

-----------------------------------------------------------------------------
(* Tables.  A table is [index, columns, values]: index is the sequence of   *)
(* row labels (day numbers), columns the set of column keys, and            *)
(* values[<<i, k>>] the cell of row i and column k: {} (NaN) or {v}.        *)

NaN == {}

Num(v) == {v}

ValueOf(cell) == CHOOSE v \in cell : TRUE

Table(index, columns, values) ==
    [index |-> index, columns |-> columns, values |-> values]

\* the cells of a table with index idx and columns cols, cell (i, k) being F(i, k)
Cells(idx, cols, F(_, _)) ==
    [c \in (1..Len(idx)) \X cols |-> F(c[1], c[2])] @@ <<>>

RECURSIVE SortedRange(_, _, _)
\* the members of S that lie in lo..hi, in ascending order
SortedRange(S, lo, hi) ==
    IF lo > hi THEN <<>>
    ELSE IF lo = hi THEN (IF lo \in S THEN <<lo>> ELSE <<>>)
    ELSE LET mid == (lo + hi) \div 2
         IN SortedRange(S, lo, mid) \o SortedRange(S, mid + 1, hi)

\* the members of a finite set of integers, in ascending order
SortedSeq(S) ==
    IF S = {} THEN <<>> ELSE SortedRange(S, SetMin(S), SetMax(S))

-----------------------------------------------------------------------------
(* Calendar resolver: the trading days of [start, end], ascending.  The     *)
(* resolver answers with the weekdays of the range, as the test suite's     *)
(* MockFinterAPI does.                                                      *)

get_trading_days(start, end) ==
    SortedRange({d \in to_datetime(start)..to_datetime(end) : dayofweek(d) < 5},
                to_datetime(start), to_datetime(end))

\* What the /calendar endpoint answers to the one request FinterAPI.get sends
\* it: a body with the field 'dates', a body with the field 'trading_days', a
\* body with neither, or an error status.
CalendarResponses == {"dates", "trading_days", "unknown_format", "http_error"}

\* FinterAPI.get raises on an error status
api_get_raises(response) == response = "http_error"

\* the error FinterAPI.get_trading_days raises on the response, "" when it
\* returns the trading days
get_trading_days_error(response) ==
    IF api_get_raises(response) THEN "HTTPError"
    ELSE IF response \in {"dates", "trading_days"} THEN ""
    ELSE "ValueError: Unknown /calendar response format"

-----------------------------------------------------------------------------
(* The steps of RedditSentimentAlpha.get.  An observation is a record       *)
(* [gvkeyiid, date, sentiment]; the store is a bag of observations (no step *)
(* reads the order of its rows, nor mention_count).                         *)

\* the filter forgotten: every row is kept
filter_none(df, start, end) == df

\* Step 2: the rows of df with start <= date <= end
filter_range(df, start, end) ==
    LET keep == {r \in DOMAIN df :
                    r.date >= to_datetime(start) /\ r.date <= to_datetime(end)}
    IN [r \in keep |-> df[r]]

\* number of rows of df with the given date and key
RowCount(df, date, key) ==
    LET rows == {r \in DOMAIN df : r.date = date /\ r.gvkeyiid = key}
    IN SumOver(rows, df)

\* DataFrame.pivot raises ValueError when an (index, column) pair occurs twice
pivot_raises(df) ==
    \E r \in DOMAIN df : RowCount(df, r.date, r.gvkeyiid) > 1

\* Step 3: index = the dates, columns = the keys, cell = the sentiment of the
\* row with that date and key, NaN when there is none
pivot(df) ==
    LET idx  == SortedSeq({r.date : r \in DOMAIN df})
        cols == {r.gvkeyiid : r \in DOMAIN df}
    IN Table(idx, cols,
             Cells(idx, cols,
                   LAMBDA i, k : {r.sentiment : r \in
                        {x \in DOMAIN df : x.date = idx[i] /\ x.gvkeyiid = k}}))

\* reindex forgotten: the rows stay those of the pivot table
reindex_none(t, new_index) == t

\* Step 4a: the rows of t relabelled to new_index; a label t does not have
\* gives a row of NaN
reindex(t, new_index) ==
    Table(new_index, t.columns,
          Cells(new_index, t.columns,
                LAMBDA i, k :
                    IF \E j \in 1..Len(t.index) : t.index[j] = new_index[i]
                    THEN t.values[<<CHOOSE j \in 1..Len(t.index) :
                                        t.index[j] = new_index[i], k>>]
                    ELSE NaN))

\* the limit forgotten: a NaN cell takes the last value above it, however far
ffill_unbounded(t, limit) ==
    Table(t.index, t.columns,
          Cells(t.index, t.columns,
                LAMBDA i, k :
                    LET src == {j \in 1..i : t.values[<<j, k>>] # NaN}
                    IN IF src # {} THEN t.values[<<SetMax(src), k>>] ELSE NaN))

\* Step 4b: a NaN cell takes the last value above it in its column, when that
\* value is at most limit rows above
ffill(t, limit) ==
    Table(t.index, t.columns,
          Cells(t.index, t.columns,
                LAMBDA i, k :
                    LET src == {j \in Max(1, i - limit)..i : t.values[<<j, k>>] # NaN}
                    IN IF src # {} THEN t.values[<<SetMax(src), k>>] ELSE NaN))

\* the table of t's index and columns whose cell is G(cell of t)
MapCells(t, G(_)) ==
    Table(t.index, t.columns,
          Cells(t.index, t.columns, LAMBDA i, k : G(t.values[<<i, k>>])))

\* fillna forgotten: the NaN cells stay
fillna_none(t, v) == t

\* every NaN cell replaced by v
fillna(t, v) == MapCells(t, LAMBDA c : IF c = NaN THEN Num(v) ELSE c)

\* aligned.abs().sum(axis=1): NaN cells count as 0
abs_row_sum(t, i) ==
    SumOver(t.columns,
            [k \in t.columns |->
                LET c == t.values[<<i, k>>]
                IN IF c = NaN THEN 0 ELSE Abs(ValueOf(c))])

\* .replace(0, np.nan) of a row sum
replace_zero_nan(s) == IF s = 0 THEN NaN ELSE Num(s)

\* a cell divided by a divisor cell, as a weight in units of 1/WeightDen; a NaN
\* operand or a zero divisor gives no finite number
div_cell(cell, divisor) ==
    IF cell = NaN \/ divisor = NaN \/ divisor = Num(0) THEN NaN
    ELSE Num((ValueOf(cell) * WeightDen) \div ValueOf(divisor))

\* the absolute value forgotten: every row divided by its sum
normalize_signed(t) ==
    LET row_sum == [i \in 1..Len(t.index) |->
            replace_zero_nan(SumOver(t.columns,
                [k \in t.columns |->
                    LET c == t.values[<<i, k>>] IN IF c = NaN THEN 0 ELSE ValueOf(c)]))]
    IN Table(t.index, t.columns,
             Cells(t.index, t.columns,
                   LAMBDA i, k : div_cell(t.values[<<i, k>>], row_sum[i])))

\* Step 5: every row divided by its sum of absolute values
normalize(t) ==
    LET row_sum == [i \in 1..Len(t.index) |-> replace_zero_nan(abs_row_sum(t, i))]
    IN Table(t.index, t.columns,
             Cells(t.index, t.columns,
                   LAMBDA i, k : div_cell(t.values[<<i, k>>], row_sum[i])))

\* Step 6: weights * 1e8 * leverage, in position units
scale(t, lev) ==
    MapCells(t, LAMBDA c :
        IF c = NaN THEN NaN
        ELSE Num((ValueOf(c) * lev.num * Scale) \div (WeightDen * lev.den)))

\* the shift forgotten: a session's row holds the position of its own sentiment
shift_none(t, periods) == t

\* Step 7: row i moves to row i + periods; the vacated rows are NaN
shift(t, periods) ==
    Table(t.index, t.columns,
          Cells(t.index, t.columns,
                LAMBDA i, k : IF i - periods >= 1 /\ i - periods <= Len(t.index)
                              THEN t.values[<<i - periods, k>>]
                              ELSE NaN))

\* the clip forgotten
clip_none(t, lo, hi) == t

\* Step 9: every number bounded to [lo, hi]; NaN stays NaN
clip(t, lo, hi) ==
    MapCells(t, LAMBDA c :
        IF c = NaN THEN NaN ELSE Num(Max(lo, Min(hi, ValueOf(c)))))

\* the column check forgotten: every column is kept
valid_cols_all(t) == t.columns

\* Step 10: the columns whose key has 9 characters
valid_cols(t) == {k \in t.columns : Len(k) = GVKEYIID_LEN}

select_columns(t, cols) ==
    Table(t.index, cols, Cells(t.index, cols, LAMBDA i, k : t.values[<<i, k>>]))

-----------------------------------------------------------------------------
(* RedditSentimentAlpha.get *)

\* the outcome of a call that returned the table position
Returned(position) == [status |-> "returned", error |-> "", position |-> position]

\* the outcome of a call that raised
Raised(error) ==
    [status |-> "raised", error |-> error, position |-> Table(<<>>, {}, <<>>)]

\* lines 95-98 read position.index[0]: IndexError on a table with no rows
log_summary_raises(position) == Len(position.index) = 0

\* Steps 3-4: the sentiment table aligned to the trading days
aligned_table(filtered, trading_days) ==
    fillna(ffill(reindex(pivot(filtered), trading_days), FFILL_LIMIT), 0)

\* Steps 3-10 on the non-empty filtered rows
positions(filtered, lev, trading_days) ==
    LET aligned  == aligned_table(filtered, trading_days)
        weights  == fillna(normalize(aligned), 0)
        scaled   == scale(weights, lev)
        shifted  == fillna(shift(scaled, 1), 0)
        clipped  == clip(shifted, -MaxPositionUnits, MaxPositionUnits)
    IN select_columns(clipped, valid_cols(clipped))

\* get without the early return of lines 59-62
get_no_early_return(df, lev, start, end) ==
    LET trading_days == get_trading_days(start, end)
        filtered     == filter_range(df, start, end)
    IN IF pivot_raises(filtered) THEN Raised("ValueError")
       ELSE LET position == positions(filtered, lev, trading_days)
            IN IF log_summary_raises(position) THEN Raised("IndexError")
               ELSE Returned(position)

get(df, lev, start, end) ==
    LET trading_days == get_trading_days(start, end)
        filtered     == filter_range(df, start, end)
    IN IF DOMAIN filtered = {}
       THEN Returned(Table(trading_days, {}, <<>>))
       ELSE IF pivot_raises(filtered) THEN Raised("ValueError")
       ELSE LET position == positions(filtered, lev, trading_days)
            IN IF log_summary_raises(position) THEN Raised("IndexError")
               ELSE Returned(position)

\* a resolver failure swallowed: get answers with a matrix of no rows
get_swallowing(response, df, lev, start, end) ==
    IF get_trading_days_error(response) # ""
    THEN Returned(Table(<<>>, {}, <<>>))
    ELSE get(df, lev, start, end)

\* get when the /calendar endpoint answers response: line 50 raises what the
\* resolver raises, before the store is read
get_via(response, df, lev, start, end) ==
    IF get_trading_days_error(response) # ""
    THEN Raised(get_trading_days_error(response))
    ELSE get(df, lev, start, end)

-----------------------------------------------------------------------------
(* float64 arithmetic.  The cells of the matrices are IEEE 754 binary64     *)
(* numbers: a division and a multiplication round their exact result to 53  *)
(* significant bits, to nearest, ties to even.  A magnitude is a natural    *)
(* number held as NLimbs limbs of 12 bits, least significant first, counting *)
(* units of 2^-72 (weights) or 2^-65 (positions, in currency units); a      *)
(* float64 value is [neg, mag].  The sentiments are small integers, which   *)
(* float64 holds exactly, and so is their row sum.                          *)

\* significant bits of a float64
MantissaBits == 53

Limb == 2^12

\* limbs of a magnitude: room for the product of two mantissas
NLimbs == 2 * (MantissaBits \div 12) + 1

\* limbs after the binary point of a weight
WeightLimbs == MantissaBits \div 12 + 2

ZeroMag == [i \in 1..NLimbs |-> 0]

RECURSIVE Carry(_, _, _)
\* the limbs of the number whose limb i is d[i] before the carries are taken
Carry(d, i, c) ==
    IF i > NLimbs THEN <<>>
    ELSE <<(d[i] + c) % Limb>> \o Carry(d, i + 1, (d[i] + c) \div Limb)

\* a * k for a small natural k
MulSmall(a, k) == Carry([i \in 1..NLimbs |-> a[i] * k], 1, 0)

AddMag(a, b) == Carry([i \in 1..NLimbs |-> a[i] + b[i]], 1, 0)

\* a <= b
LessEqMag(a, b) ==
    LET differ == {i \in 1..NLimbs : a[i] # b[i]}
    IN differ = {} \/ a[SetMax(differ)] < b[SetMax(differ)]

\* 2^t
Pow2Mag(t) == [i \in 1..NLimbs |-> IF i = t \div 12 + 1 THEN 2^(t % 12) ELSE 0] @@ <<>>

\* bit b of a, bit 0 being the least significant
BitOf(a, b) == (a[b \div 12 + 1] \div 2^(b % 12)) % 2

\* number of bits of a
BitLen(a) ==
    IF a = ZeroMag THEN 0
    ELSE 1 + SetMax({b \in 0..(12 * NLimbs - 1) : BitOf(a, b) = 1})

\* a with its t lowest bits cleared
ClearLow(a, t) ==
    [i \in 1..NLimbs |->
        LET lo == 12 * (i - 1)
        IN IF lo + 12 <= t THEN 0
           ELSE IF lo >= t THEN a[i]
           ELSE (a[i] \div 2^(t - lo)) * 2^(t - lo)] @@ <<>>

\* the float64 nearest to an exact result: a is its integer part in the unit
\* of the magnitude and sticky tells that a fraction was left; ties to even
round_float64(a, sticky) ==
    LET t == BitLen(a) - MantissaBits
    IN IF t <= 0 THEN a
       ELSE LET half  == BitOf(a, t - 1) = 1
                below == sticky \/ \E b \in 0..(t - 2) : BitOf(a, b) = 1
                odd   == BitOf(a, t) = 1
            IN IF half /\ (below \/ odd)
               THEN AddMag(ClearLow(a, t), Pow2Mag(t))
               ELSE ClearLow(a, t)

RECURSIVE Remainder(_, _, _)
\* (x * Limb^i) mod s
Remainder(x, s, i) ==
    IF i = 0 THEN x % s ELSE (Remainder(x, s, i - 1) * Limb) % s

\* limb i after the binary point of x / s (limb 0: the integer part)
QuotientLimb(x, s, i) ==
    IF i = 0 THEN x \div s ELSE (Remainder(x, s, i - 1) * Limb) \div s

\* the float64 x / s of naturals x <= s, s > 0, in units of 2^-72
div_float64(x, s) ==
    round_float64(
        [i \in 1..NLimbs |->
            IF i <= WeightLimbs + 1 THEN QuotientLimb(x, s, WeightLimbs + 1 - i)
            ELSE 0] @@ <<>>,
        Remainder(x, s, WeightLimbs) # 0)

\* 1e8 = NotionalOdd * 2^8
NotionalOdd == NOTIONAL_BASE \div 2^8

\* the float64 w * 1e8 of a weight w: a magnitude in units of 2^-64
mul_notional_float64(w) == round_float64(MulSmall(w, NotionalOdd), FALSE)

\* the float64 p * leverage for a leverage of 0.5, 1.0 or 2.0, which changes
\* the exponent only: a magnitude in units of 2^-65
mul_leverage_float64(p, lev) == MulSmall(p, (2 * lev.num) \div lev.den)

\* 1e8 * leverage in units of 2^-65
NotionalMag(lev) == MulSmall(Pow2Mag(72), NotionalOdd * ((2 * lev.num) \div lev.den))

\* MAX_POSITION in units of 2^-65
MaxPositionMag == MulSmall(Pow2Mag(73), MAX_POSITION \div 2^8)

Float64(neg, mag) == [neg |-> neg, mag |-> mag]

Zero64 == Float64(FALSE, ZeroMag)

\* the leverage forgotten: weights * 1e8
scale_float64_ignoring_leverage(t, lev) ==
    MapCells(t, LAMBDA c :
        IF c = NaN THEN NaN
        ELSE Num(Float64(ValueOf(c).neg,
                         MulSmall(mul_notional_float64(ValueOf(c).mag), 2))))

\* Step 5 in float64: every row divided by its sum of absolute values
normalize_float64(t) ==
    LET row_sum == [i \in 1..Len(t.index) |-> replace_zero_nan(abs_row_sum(t, i))]
    IN Table(t.index, t.columns,
             Cells(t.index, t.columns,
                   LAMBDA i, k :
                       IF t.values[<<i, k>>] = NaN \/ row_sum[i] = NaN THEN NaN
                       ELSE Num(Float64(ValueOf(t.values[<<i, k>>]) < 0,
                                        div_float64(Abs(ValueOf(t.values[<<i, k>>])),
                                                    ValueOf(row_sum[i]))))))

\* Step 6 in float64: (weights * 1e8) * leverage
scale_float64(t, lev) ==
    MapCells(t, LAMBDA c :
        IF c = NaN THEN NaN
        ELSE Num(Float64(ValueOf(c).neg,
                         mul_leverage_float64(mul_notional_float64(ValueOf(c).mag), lev))))

\* Step 9 in float64: every magnitude bounded to 1e8
clip_float64(t) ==
    MapCells(t, LAMBDA c :
        IF c = NaN THEN NaN
        ELSE IF LessEqMag(ValueOf(c).mag, MaxPositionMag) THEN c
        ELSE Num(Float64(ValueOf(c).neg, MaxPositionMag)))

\* Steps 3-8 in float64: the positions before the clip
shifted_float64(filtered, lev, trading_days) ==
    fillna(shift(scale_float64(fillna(normalize_float64(
        aligned_table(filtered, trading_days)), Zero64), lev), 1), Zero64)

\* Steps 3-10 in float64 on the non-empty filtered rows
positions_float64(filtered, lev, trading_days) ==
    LET clipped == clip_float64(shifted_float64(filtered, lev, trading_days))
    IN select_columns(clipped, valid_cols(clipped))

\* get with the cells of its matrix as the float64 numbers the code computes
get_float64(df, lev, start, end) ==
    LET trading_days == get_trading_days(start, end)
        filtered     == filter_range(df, start, end)
    IN IF DOMAIN filtered = {}
       THEN Returned(Table(trading_days, {}, <<>>))
       ELSE IF pivot_raises(filtered) THEN Raised("ValueError")
       ELSE LET position == positions_float64(filtered, lev, trading_days)
            IN IF log_summary_raises(position) THEN Raised("IndexError")
               ELSE Returned(position)

-----------------------------------------------------------------------------
(* RedditSentimentAlpha.validate *)

\* index.min() and index.max(), as cells: an index with no rows has neither
\* (NaT)
index_min(t) ==
    IF Len(t.index) = 0 THEN NaN
    ELSE Num(-RangeMax([i \in 1..Len(t.index) |-> -t.index[i]], 1, Len(t.index)))

index_max(t) ==
    IF Len(t.index) = 0 THEN NaN ELSE Num(RangeMax(t.index, 1, Len(t.index)))

\* Python's max(a, b) and min(a, b): b when b > a (b < a), else a; a
\* comparison with NaT is false
py_max(a, b) == IF a # NaN /\ b # NaN /\ ValueOf(b) > ValueOf(a) THEN b ELSE a

py_min(a, b) == IF a # NaN /\ b # NaN /\ ValueOf(b) < ValueOf(a) THEN b ELSE a

\* the slice forgotten: every row is kept
loc_none(t, lo, hi) == t

\* t.loc[lo:hi]: the rows labelled lo to hi, both included.  The bounds are
\* NaT only when t has no rows.
loc(t, lo, hi) ==
    LET rows == SortedRange({i \in 1..Len(t.index) :
                                /\ lo # NaN /\ hi # NaN
                                /\ t.index[i] >= ValueOf(lo)
                                /\ t.index[i] <= ValueOf(hi)},
                            1, Len(t.index))
        idx  == [n \in 1..Len(rows) |-> t.index[rows[n]]]
    IN Table(idx, t.columns,
             Cells(idx, t.columns, LAMBDA n, k : t.values[<<rows[n], k>>]))

\* the cell of t labelled (day, k); NaN when t has no such row or column
at(t, day, k) ==
    IF k \in t.columns /\ \E i \in 1..Len(t.index) : t.index[i] = day
    THEN t.values[<<CHOOSE i \in 1..Len(t.index) : t.index[i] = day, k>>]
    ELSE NaN

\* t1 - t2: the tables are aligned on the union of their rows and of their
\* columns; a cell that one of them does not have is NaN
sub(t1, t2) ==
    LET idx  == SortedSeq({t1.index[i] : i \in 1..Len(t1.index)}
                          \cup {t2.index[i] : i \in 1..Len(t2.index)})
        cols == t1.columns \cup t2.columns
    IN Table(idx, cols,
             Cells(idx, cols,
                   LAMBDA n, k :
                       LET a == at(t1, idx[n], k)
                           b == at(t2, idx[n], k)
                       IN IF a = NaN \/ b = NaN THEN NaN
                          ELSE Num(ValueOf(a) - ValueOf(b))))

\* the absolute value forgotten: the differences keep their signs
abs_table_none(t) == t

abs_table(t) == MapCells(t, LAMBDA c : IF c = NaN THEN NaN ELSE Num(Abs(ValueOf(c))))

\* the numbers the cells of t hold
numbers(t) == {ValueOf(t.values[x]) : x \in {y \in DOMAIN t.values : t.values[y] # NaN}}

\* t.sum().sum(): NaN cells are skipped
sum_sum(t) ==
    LET column_sum == [k \in t.columns |->
            SumRange([i \in 1..Len(t.index) |->
                         LET c == t.values[<<i, k>>]
                         IN IF c = NaN THEN 0 ELSE ValueOf(c)],
                     1, Len(t.index))]
    IN SumOver(t.columns, column_sum)

\* t.max().max(): NaN when no cell holds a number
max_max(t) == IF numbers(t) = {} THEN NaN ELSE Num(SetMax(numbers(t)))

\* t.empty: no rows or no columns
empty(t) == Len(t.index) = 0 \/ t.columns = {}

\* the outcome of a get that validate did not reach
NotRun == [status |-> "not_run", error |-> "", position |-> Table(<<>>, {}, <<>>)]

\* lines 129-164: the comparison of the two matrices.  total_diff is held in
\* position units.
compare(pos1, pos2) ==
    LET overlap_start == py_max(index_min(pos1), index_min(pos2))
        overlap_end   == py_min(index_max(pos1), index_max(pos2))
        pos1_overlap  == loc(pos1, overlap_start, overlap_end)
        pos2_overlap  == loc(pos2, overlap_start, overlap_end)
        diff          == abs_table(sub(pos1_overlap, pos2_overlap))
        total_diff    == sum_sum(diff)
    IN [passed            |-> total_diff <= ThresholdUnits,
        total_diff        |-> total_diff,
        threshold         |-> THRESHOLD,
        overlap_days      |-> Len(pos1_overlap.index),
        max_position_diff |-> IF empty(diff) THEN Num(0) ELSE max_max(diff)]

\* the result of a validate that raised
NoResult ==
    [passed |-> FALSE, total_diff |-> 0, threshold |-> THRESHOLD,
     overlap_days |-> 0, max_position_diff |-> NaN]

\* the error of the first get that raised, "" when neither did
first_error(out1, out2) ==
    IF out1.status = "raised" THEN out1.error
    ELSE IF out2.status = "raised" THEN out2.error ELSE ""

\* lines 129-164, out1 and out2 being the outcomes of the two gets: the
\* result of the comparison, or the error that ended validate
validate_both(start1_int, start2_int, out1, out2) ==
    [status     |-> IF first_error(out1, out2) = "" THEN "returned" ELSE "raised",
     error      |-> first_error(out1, out2),
     start1_int |-> start1_int,
     start2_int |-> start2_int,
     pos1       |-> out1,
     pos2       |-> out2,
     result     |-> IF first_error(out1, out2) = ""
                    THEN compare(out1.position, out2.position)
                    ELSE NoResult]

\* line 127: the second get runs when the first one returned
second_get(out1, response2, df, lev, start2_int, end) ==
    IF out1.status = "raised" THEN NotRun
    ELSE get_via(response2, df, lev, start2_int, end)

\* lines 127-164, out1 being the outcome of the first get
validate_after(out1, df, lev, start1_int, start2_int, end, response2) ==
    validate_both(start1_int, start2_int, out1,
                  second_get(out1, response2, df, lev, start2_int, end))

\* validate(start, end) of an alpha on the store df, the /calendar endpoint
\* answering response1 to the first get and response2 to the second.  An error
\* of get is not caught.
validate(df, lev, start, end, response1, response2) ==
    validate_after(get_via(response1, df, lev,
                           earlier_start(start, LOOKBACK_DAYS_1), end),
                   df, lev,
                   earlier_start(start, LOOKBACK_DAYS_1),
                   earlier_start(start, LOOKBACK_DAYS_2), end, response2)

-----------------------------------------------------------------------------
(* The state machine.  An alpha object is constructed on an observation     *)
(* store and a leverage, and get and validate are called on it; calls holds *)
(* the calls of get in the order they were made, each with its arguments,   *)
(* the store it read, the resolver's answer and its outcome, and            *)
(* validations the calls of validate.                                       *)

ObservationsOf(keys, dates) ==
    [gvkeyiid : keys, date : {to_datetime(n) : n \in dates}, sentiment : Sentiments]

Observations == ObservationsOf(Keys, ObsDates)

RECURSIVE BagOfSeq(_)
BagOfSeq(rows) ==
    IF rows = <<>> THEN EmptyBag ELSE SetToBag({Head(rows)}) (+) BagOfSeq(Tail(rows))

\* the stores of at most n rows taken from obs
StoresOf(obs, n) ==
    UNION {{BagOfSeq(rows) : rows \in [1..m -> obs]} : m \in 0..n}

\* the stores of at most n rows
Stores(n) == StoresOf(Observations, n)

\* Python's None
None == [class |-> "NoneType", n |-> 0]

\* the module globals of mcp_server that hold the lazily loaded collaborators
Globals == {"_scraper", "_sentiment_engine", "_finter"}

\* the classes of the collaborators
Classes == {"RedditScraper", "SentimentEngine", "FinterAPI"}

\* the threads of the pool that runs the endpoints
RequestThreads == {"thread-1", "thread-2"}

\* a thread that runs no request
Idle == [getter |-> "", pc |-> "idle", value |-> None]

\* mcp_server after import (lines 31-33): nothing is loaded, no request runs
ServerInit ==
    /\ module_globals = [g \in Globals |-> None]
    /\ finter_module = None
    /\ constructed = [c \in Classes |-> 0]
    /\ threads = [t \in RequestThreads |-> Idle]
    /\ handed_out = {}
    /\ responses = <<>>

\* submit_to_finter before main has run
ScriptInit == runs = <<>>

\* a SentimentEngine before calculate_daily_sentiment is called
EngineInit == aggregations = <<>>

\* a FinterAPI object after __init__ (line 31): the mapping cache is None
FinterInit ==
    /\ universes = <<>>
    /\ ticker_cache = None
    /\ api_requests = 0
    /\ mappings = <<>>

\* the variables an alpha object does not touch
other_vars == <<server_vars, script_vars, engine_vars, finter_vars>>

\* alpha = RedditSentimentAlpha(sentiment_df, leverage) on a store taken from
\* stores; the date column holds dates as the caller made them
Construct(stores) ==
    /\ sentiment_df \in stores
    /\ date_dtype = "object"
    /\ leverage \in Leverages
    /\ calls = <<>>
    /\ validations = <<>>
    /\ calendar_requests = 0
    /\ ServerInit /\ ScriptInit /\ EngineInit /\ FinterInit

Init == Construct(Stores(MaxObs))

\* a call of get: its arguments, the store it read, the resolver's answer and
\* its outcome
Call(start, end, response) ==
    [start |-> start, end |-> end, response |-> response,
     obs |-> sentiment_df, leverage |-> leverage,
     out |-> get_via(response, sentiment_df, leverage, start, end)]

\* get keeping only the filtered rows in the store
GetVia_filtering(start, end, response) ==
    /\ Len(calls) < 2
    /\ calls' = Append(calls, Call(start, end, response))
    /\ calendar_requests' = calendar_requests + 1
    /\ date_dtype' = "datetime64[ns]"
    /\ sentiment_df' = filter_range(sentiment_df, start, end)
    /\ UNCHANGED <<leverage, validations>>
    /\ UNCHANGED other_vars

\* alpha.get(start, end), the /calendar endpoint answering response; two calls
\* are followed.  get sends the resolver one request.  When the resolver
\* answers, line 54 rewrites the date column of the store with the same dates
\* as datetimes: the rows of the store are unchanged.
GetVia(start, end, response) ==
    /\ Len(calls) < 2
    /\ calls' = Append(calls, Call(start, end, response))
    /\ calendar_requests' = calendar_requests + 1
    /\ date_dtype' = IF get_trading_days_error(response) # "" THEN date_dtype
                     ELSE "datetime64[ns]"
    /\ UNCHANGED <<sentiment_df, leverage, validations>>
    /\ UNCHANGED other_vars

\* alpha.get(start, end) when the resolver answers
Get(start, end) == GetVia(start, end, "dates")

\* a call of validate: its arguments, the store it read, the resolver's
\* answers and its outcome
Validation(start, end, response1, response2) ==
    [start |-> start, end |-> end, obs |-> sentiment_df, leverage |-> leverage,
     response1 |-> response1, response2 |-> response2,
     out |-> validate(sentiment_df, leverage, start, end, response1, response2)]

\* alpha.validate(start, end), the /calendar endpoint answering response1 and
\* response2; one call is followed.  Each get that validate runs sends the
\* resolver one request and, when the resolver answers, rewrites the date column.
ValidateVia(start, end, response1, response2) ==
    LET v == Validation(start, end, response1, response2)
    IN /\ Len(validations) < 1
       /\ validations' = Append(validations, v)
       /\ calendar_requests' =
              calendar_requests +
              (IF validations'[Len(validations')].out.pos2.status = "not_run"
               THEN 1 ELSE 2)
       /\ date_dtype' = IF get_trading_days_error(response1) # "" THEN date_dtype
                        ELSE "datetime64[ns]"
       /\ UNCHANGED <<sentiment_df, leverage, calls>>
       /\ UNCHANGED other_vars

\* alpha.validate(start, end) when the resolver answers
Validate(start, end) == ValidateVia(start, end, "dates", "dates")

Next == \E rq \in Requests : Get(rq[1], rq[2])

Spec == Init /\ [][Next]_vars

(* The same alpha whose store, the caller's frame held by reference, gets   *)
(* one more row between the first call of get and the second.               *)

InitPair == Construct(Stores(MaxObs - 1))

AddObservation(r) ==
    /\ Len(calls) = 1
    /\ BagCardinality(sentiment_df) < MaxObs
    /\ sentiment_df' = sentiment_df (+) SetToBag({r})
    /\ date_dtype' = "object"
    /\ UNCHANGED <<leverage, calls, validations, calendar_requests>>
    /\ UNCHANGED other_vars

NextPair ==
    \/ \E rq \in PairRequests : Get(rq[1], rq[2])
    \/ \E r \in Observations : AddObservation(r)

SpecPair == InitPair /\ [][NextPair]_vars

(* An alpha constructed with a leverage of 0.5, 1.0 or 2.0, the cells of    *)
(* the matrices it returns held as the float64 numbers the code computes.   *)

ExposureObservations ==
    [gvkeyiid : Keys, date : {to_datetime(n) : n \in ExposureObsDates},
     sentiment : ExposureSentiments]

InitExposure ==
    /\ sentiment_df \in StoresOf(ExposureObservations, MaxObs)
    /\ date_dtype = "object"
    /\ leverage \in ExposureLeverages
    /\ calls = <<>>
    /\ validations = <<>>
    /\ calendar_requests = 0
    /\ ServerInit /\ ScriptInit /\ EngineInit /\ FinterInit

\* alpha.get(start, end) when the resolver answers; two calls are followed
GetFloat64(start, end) ==
    /\ Len(calls) < 2
    /\ calls' = Append(calls,
                       [start |-> start, end |-> end, response |-> "dates",
                        obs |-> sentiment_df, leverage |-> leverage,
                        out |-> get_float64(sentiment_df, leverage, start, end)])
    /\ calendar_requests' = calendar_requests + 1
    /\ date_dtype' = "datetime64[ns]"
    /\ UNCHANGED <<sentiment_df, leverage, validations>>
    /\ UNCHANGED other_vars

NextExposure == \E rq \in ExposureRequests : GetFloat64(rq[1], rq[2])

SpecExposure == InitExposure /\ [][NextExposure]_vars

(* An alpha on observations spread over eleven sessions. *)

FillObservations == ObservationsOf(FillKeys, FillObsDates)

InitFill == Construct(StoresOf(FillObservations, MaxObs))

NextFill == \E rq \in FillRequests : Get(rq[1], rq[2])

SpecFill == InitFill /\ [][NextFill]_vars

(* An alpha that is validated. *)

ValidateObservations == ObservationsOf(FillKeys, ValidateObsDates)

InitValidate == Construct(StoresOf(ValidateObservations, MaxObs))

NextValidate == \E rq \in ValidateRequests : Validate(rq[1], rq[2])

SpecValidate == InitValidate /\ [][NextValidate]_vars

(* An alpha on an empty store, validated from any day of some years: the    *)
(* lookback dates validate hands to get.                                    *)

IsLeap(y) == (y % 4 = 0 /\ y % 100 # 0) \/ y % 400 = 0

DaysInMonth(y, m) ==
    IF m = 2 THEN (IF IsLeap(y) THEN 29 ELSE 28)
    ELSE IF m \in {4, 6, 9, 11} THEN 30 ELSE 31

\* n is the YYYYMMDD integer of a day of the calendar
IsValidDate(n) ==
    LET y == n \div 10000
        m == (n \div 100) % 100
        d == n % 100
    IN m \in 1..12 /\ d >= 1 /\ d <= DaysInMonth(y, m)

LookbackStarts ==
    {y * 10000 + m * 100 + d : <<y, m, d>> \in
        {x \in LookbackYears \X (1..12) \X (1..31) : x[3] <= DaysInMonth(x[1], x[2])}}

InitLookback == Construct({EmptyBag})

NextLookback == \E start \in LookbackStarts : Validate(start, start)

SpecLookback == InitLookback /\ [][NextLookback]_vars

(* An alpha whose calendar resolver may fail, on get and inside validate. *)

CalendarObservations == ObservationsOf(CalendarKeys, CalendarObsDates)

InitCalendar == Construct(StoresOf(CalendarObservations, MaxObs))

NextCalendar ==
    \/ \E rq \in CalendarRequests, response \in CalendarResponses :
          GetVia(rq[1], rq[2], response)
    \/ \E rq \in CalendarRequests, response1 \in CalendarResponses,
          response2 \in CalendarResponses :
          ValidateVia(rq[1], rq[2], response1, response2)

SpecCalendar == InitCalendar /\ [][NextCalendar]_vars

-----------------------------------------------------------------------------
(* Reading the calls *)

CallIds == 1..Len(calls)

returned(c) == c.out.status = "returned"

\* the rows of the store of call c that lie in its range
InRange(c) == filter_range(c.obs, c.start, c.end)

\* the sessions the calendar resolver gives for the range of call c
Sessions(c) == get_trading_days(c.start, c.end)

RowIds(c) == 1..Len(c.out.position.index)

\* the cell of row i and security k; a security with no column holds 0
CellAt(c, i, k) ==
    IF k \in c.out.position.columns THEN c.out.position.values[<<i, k>>] ELSE Num(0)

\* the row of call c labelled day, when it has one
RowOfDay(c, day) == CHOOSE i \in RowIds(c) : c.out.position.index[i] = day

HasRowOfDay(c, day) == \E i \in RowIds(c) : c.out.position.index[i] = day

\* two calls on the same store, with the same leverage
SameAlpha(c, d) == c.obs = d.obs /\ c.leverage = d.leverage

\* some (security key, date) pair occurs in more than one row of df
HasDuplicates(df) == \E r \in DOMAIN df : RowCount(df, r.date, r.gvkeyiid) > 1

-----------------------------------------------------------------------------
(* C1.  Start-date independence *)

\* the sessions both calls have a row for
CommonDays(c, d) ==
    {c.out.position.index[i] : i \in RowIds(c)} \cap
    {d.out.position.index[i] : i \in RowIds(d)}

\* sum of |c - d| over the cells both calls have, in position units
TotalDiff(c, d) ==
    LET cells == CommonDays(c, d) \X (c.out.position.columns \cap d.out.position.columns)
    IN SumOver(cells,
               [x \in cells |->
                   Abs(ValueOf(c.out.position.values[<<RowOfDay(c, x[1]), x[2]>>])
                       - ValueOf(d.out.position.values[<<RowOfDay(d, x[1]), x[2]>>]))])

\* C1: two calls of get on the same store with the same leverage and end, and
\* start dates s1 < s2 <= end, give matrices whose absolute differences over
\* their common sessions sum to at most 1.0 currency unit.
C1_StartIndependence ==
    \A i \in CallIds, j \in CallIds :
        ( /\ SameAlpha(calls[i], calls[j])
          /\ calls[i].end = calls[j].end
          /\ to_datetime(calls[i].start) < to_datetime(calls[j].start)
          /\ to_datetime(calls[j].start) <= to_datetime(calls[j].end)
          /\ returned(calls[i]) /\ returned(calls[j]) )
        => TotalDiff(calls[i], calls[j]) <= ThresholdUnits

-----------------------------------------------------------------------------
(* C2.  No look-ahead *)

\* the rows of df dated before day
Before(df, day) == [r \in {x \in DOMAIN df : x.date < day} |-> df[r]]

\* C2: when the stores of two calls of get with the same arguments and
\* leverage agree on every observation dated before session t, both calls
\* give the same value at row t for every security, a security with no
\* column counting as 0.
C2_NoLookAhead ==
    \A i \in CallIds, j \in CallIds :
        LET c == calls[i]
            d == calls[j]
        IN ( /\ c.start = d.start /\ c.end = d.end /\ c.leverage = d.leverage )
           => \A n \in 1..Len(Sessions(c)) :
                LET t == Sessions(c)[n]
                IN Before(c.obs, t) = Before(d.obs, t)
                   => /\ returned(c) /\ returned(d)
                      /\ HasRowOfDay(c, t) /\ HasRowOfDay(d, t)
                      /\ \A k \in Keys :
                            CellAt(c, RowOfDay(c, t), k) = CellAt(d, RowOfDay(d, t), k)

\* C2 for the stores that hold no (security key, date) pair twice
C2_NoLookAheadWithoutDuplicates ==
    \A i \in CallIds, j \in CallIds :
        LET c == calls[i]
            d == calls[j]
        IN ( /\ c.start = d.start /\ c.end = d.end /\ c.leverage = d.leverage
             /\ ~HasDuplicates(c.obs) /\ ~HasDuplicates(d.obs) )
           => \A n \in 1..Len(Sessions(c)) :
                LET t == Sessions(c)[n]
                IN Before(c.obs, t) = Before(d.obs, t)
                   => /\ returned(c) /\ returned(d)
                      /\ HasRowOfDay(c, t) /\ HasRowOfDay(d, t)
                      /\ \A k \in Keys :
                            CellAt(c, RowOfDay(c, t), k) = CellAt(d, RowOfDay(d, t), k)

-----------------------------------------------------------------------------
(* C3.  First-row zero *)

\* C3: every cell of the first row of a matrix that get returns is exactly 0.
C3_FirstRowZero ==
    \A i \in CallIds :
        (returned(calls[i]) /\ RowIds(calls[i]) # {}) =>
            \A k \in calls[i].out.position.columns :
                calls[i].out.position.values[<<1, k>>] = Num(0)

\* a returned matrix whose first session has an observation of a security that
\* holds a position on the second session
C3_Witness ==
    \E i \in CallIds :
        /\ returned(calls[i])
        /\ \E k \in calls[i].out.position.columns :
            /\ Len(calls[i].out.position.index) >= 2
            /\ \E r \in DOMAIN InRange(calls[i]) :
                  r.gvkeyiid = k /\ r.date = calls[i].out.position.index[1]
            /\ calls[i].out.position.values[<<2, k>>] # Num(0)

-----------------------------------------------------------------------------
(* C4.  Position bound independent of leverage *)

\* C4: every cell v of a matrix that get returns satisfies
\* -MAX_POSITION <= v <= MAX_POSITION, whatever the leverage.
C4_PositionBound ==
    \A i \in CallIds : returned(calls[i]) =>
        \A x \in DOMAIN calls[i].out.position.values :
            \A v \in calls[i].out.position.values[x] :
                -MaxPositionUnits <= v /\ v <= MaxPositionUnits

\* a call with leverage above 1 whose matrix holds a cell at the bound
C4_Witness ==
    \E i \in CallIds :
        /\ returned(calls[i])
        /\ calls[i].leverage.num > calls[i].leverage.den
        /\ \E x \in DOMAIN calls[i].out.position.values :
              calls[i].out.position.values[x] \in
                  {Num(MaxPositionUnits), Num(-MaxPositionUnits)}

-----------------------------------------------------------------------------
(* C5.  Row-session invariant *)

\* C5: the row index of a matrix that get returns is the sequence of sessions
\* the calendar resolver gives for the range.
C5_RowsAreSessions ==
    \A i \in CallIds : returned(calls[i]) =>
        calls[i].out.position.index = Sessions(calls[i])

\* a returned matrix with columns, for a range with a session that has an
\* observation, a session that has none and an observation on no session
C5_Witness ==
    \E i \in CallIds :
        LET dates == {r.date : r \in DOMAIN InRange(calls[i])}
            days  == {Sessions(calls[i])[n] : n \in 1..Len(Sessions(calls[i]))}
        IN /\ returned(calls[i])
           /\ calls[i].out.position.columns # {}
           /\ days \cap dates # {}
           /\ days \ dates # {}
           /\ dates \ days # {}

-----------------------------------------------------------------------------
(* C6.  Empty observations are not an error *)

\* C6: a call of get with no observation inside [start, end] returns a matrix
\* whose rows are the resolver's sessions and whose column set is empty.
C6_EmptyObservations ==
    \A i \in CallIds : DOMAIN InRange(calls[i]) = {} =>
        /\ returned(calls[i])
        /\ calls[i].out.position.index = Sessions(calls[i])
        /\ calls[i].out.position.columns = {}

\* a call on a store that has observations, none of them in a range that has sessions
C6_Witness ==
    \E i \in CallIds :
        /\ DOMAIN calls[i].obs # {}
        /\ DOMAIN InRange(calls[i]) = {}
        /\ returned(calls[i])
        /\ Len(calls[i].out.position.index) >= 1

\* a call on an empty store, for a range with no session
C6_WitnessNoSession ==
    \E i \in CallIds :
        /\ DOMAIN calls[i].obs = {}
        /\ Len(Sessions(calls[i])) = 0
        /\ returned(calls[i])

-----------------------------------------------------------------------------
(* C7.  Empty session range is not an error *)

\* C7: a call of get for a range in which the resolver finds no session
\* returns a matrix with no rows, whether or not observations fall in the range.
C7_EmptySessions ==
    \A i \in CallIds : Len(Sessions(calls[i])) = 0 =>
        returned(calls[i]) /\ Len(calls[i].out.position.index) = 0

\* the part of C7 the code keeps: no session and no observation in the range
C7_EmptySessionsNoObservation ==
    \A i \in CallIds :
        (Len(Sessions(calls[i])) = 0 /\ DOMAIN InRange(calls[i]) = {}) =>
            returned(calls[i]) /\ Len(calls[i].out.position.index) = 0

-----------------------------------------------------------------------------
(* C8.  Duplicate keys are pre-aggregated *)

\* C8: a call of get whose range holds two or more records of one
\* (security key, date) returns a matrix; it does not raise.
C8_DuplicatesAggregated ==
    \A i \in CallIds : HasDuplicates(InRange(calls[i])) => returned(calls[i])

-----------------------------------------------------------------------------
(* C9.  Dense, finite output *)

\* row n of the aligned sentiment table of call c sums to 0 in absolute value
ZeroSentimentRow(c, n) ==
    abs_row_sum(aligned_table(InRange(c), Sessions(c)), n) = 0

\* C9: every cell of a matrix that get returns holds a number; and the row
\* after a session whose aligned sentiments are all 0 is all zeros.
C9_DenseFinite ==
    \A i \in CallIds : returned(calls[i]) =>
        /\ \A x \in DOMAIN calls[i].out.position.values :
              calls[i].out.position.values[x] # NaN
        /\ DOMAIN InRange(calls[i]) # {} =>
              \A n \in RowIds(calls[i]) :
                  (n + 1 \in RowIds(calls[i]) /\ ZeroSentimentRow(calls[i], n)) =>
                      \A k \in calls[i].out.position.columns :
                          calls[i].out.position.values[<<n + 1, k>>] = Num(0)

\* a returned matrix with columns in which a session of zero sentiment is
\* followed by another session, and some cell is not 0
C9_Witness ==
    \E i \in CallIds :
        /\ returned(calls[i])
        /\ DOMAIN InRange(calls[i]) # {}
        /\ calls[i].out.position.columns # {}
        /\ \E n \in RowIds(calls[i]) :
              n + 1 \in RowIds(calls[i]) /\ ZeroSentimentRow(calls[i], n)
        /\ \E x \in DOMAIN calls[i].out.position.values :
              calls[i].out.position.values[x] \notin {NaN, Num(0)}

-----------------------------------------------------------------------------
(* C10.  Column format invariant *)

\* C10: the columns of a matrix that get returns on the non-empty path are
\* the 9-character keys of the observations inside [start, end]: each of
\* those, and no key of another length.
C10_ColumnFormat ==
    \A i \in CallIds :
        (returned(calls[i]) /\ DOMAIN InRange(calls[i]) # {}) =>
            calls[i].out.position.columns =
                {r.gvkeyiid : r \in {x \in DOMAIN InRange(calls[i]) :
                                        Len(x.gvkeyiid) = GVKEYIID_LEN}}

\* a returned matrix for a range with an observation of a 9-character key and
\* one of a key of another length
C10_Witness ==
    \E i \in CallIds :
        /\ returned(calls[i])
        /\ \E r \in DOMAIN InRange(calls[i]) : Len(r.gvkeyiid) = GVKEYIID_LEN
        /\ \E r \in DOMAIN InRange(calls[i]) : Len(r.gvkeyiid) # GVKEYIID_LEN

-----------------------------------------------------------------------------
(* C11.  Bounded forward fill *)

\* the sentiment table of call c before normalisation and shift
Aligned(c) == aligned_table(InRange(c), Sessions(c))

\* the sessions up to the n-th on which security k has an observation in rows
ObservedSessions(rows, sessions, k, n) ==
    {m \in 1..n : \E r \in DOMAIN rows : r.gvkeyiid = k /\ r.date = sessions[m]}

\* the sentiment of security k observed on the m-th session
ObservedOn(rows, sessions, k, m) ==
    (CHOOSE r \in DOMAIN rows : r.gvkeyiid = k /\ r.date = sessions[m]).sentiment

\* C11: before the shift, the cell of session n and security k holds the
\* sentiment of k's latest observation on a session m <= n when n - m <= 5,
\* and 0 when there is none or it lies more than 5 sessions back.
C11_BoundedForwardFill ==
    \A i \in CallIds :
        LET c        == calls[i]
            rows     == InRange(c)
            sessions == Sessions(c)
            a        == Aligned(c)
        IN (DOMAIN rows # {} /\ ~HasDuplicates(rows)) =>
            /\ a.index = sessions
            /\ \A n \in 1..Len(sessions) :
                 \A k \in {r.gvkeyiid : r \in DOMAIN rows} :
                    LET seen == ObservedSessions(rows, sessions, k, n)
                    IN a.values[<<n, k>>] =
                         IF seen # {} /\ n - SetMax(seen) <= 5
                         THEN Num(ObservedOn(rows, sessions, k, SetMax(seen)))
                         ELSE Num(0)

\* one observation on the first of eleven sessions: its sentiment on sessions
\* 1 to 6, and 0 on sessions 7 to 11
C11_Witness ==
    \E i \in CallIds :
        LET c == calls[i]
            a == Aligned(c)
        IN /\ Len(Sessions(c)) = 11
           /\ \E r \in DOMAIN InRange(c) :
                /\ DOMAIN InRange(c) = {r}
                /\ InRange(c)[r] = 1
                /\ r.date = Sessions(c)[1]
                /\ \A n \in 1..6 : a.values[<<n, r.gvkeyiid>>] = Num(r.sentiment)
                /\ \A n \in 7..11 : a.values[<<n, r.gvkeyiid>>] = Num(0)

-----------------------------------------------------------------------------
(* C12.  Normalize, scale and shift formula *)

\* the sum of |a_k| over all the securities of row n of the sentiment table a
RowAbsSum(a, n) ==
    SumOver(a.columns, [k \in a.columns |-> Abs(ValueOf(a.values[<<n, k>>]))])

\* clip(x / sum * 1e8 * leverage, -1e8, 1e8) in position units, 0 when sum is 0
ExpectedPosition(x, sum, lev) ==
    IF sum = 0 THEN 0
    ELSE Max(-MaxPositionUnits,
             Min(MaxPositionUnits, (x * Scale * lev.num) \div (sum * lev.den)))

\* 1e8 * leverage clipped to 1e8, in position units
FullNotional(lev) == Min(MaxPositionUnits, (Scale * lev.num) \div lev.den)

\* C12: in a matrix that get returns, the cell of session n + 1 and output
\* security k is clip(a_k(n) / SUM |a(n)| * 1e8 * leverage, -1e8, 1e8), a(n)
\* being the forward-filled sentiment row of session n and the sum running
\* over all its securities; the cell has the sign of a_k(n), and a security
\* that alone has a nonzero sentiment in row n holds the full notional.
C12_NormalizeScaleShift ==
    \A i \in CallIds :
        LET c == calls[i]
            a == Aligned(c)
        IN (returned(c) /\ DOMAIN InRange(c) # {}) =>
            \A n \in RowIds(c) : n + 1 \in RowIds(c) =>
                \A k \in c.out.position.columns :
                    LET x == ValueOf(a.values[<<n, k>>])
                        v == ValueOf(c.out.position.values[<<n + 1, k>>])
                    IN /\ v = ExpectedPosition(x, RowAbsSum(a, n), c.leverage)
                       /\ (v > 0) = (x > 0)
                       /\ (v < 0) = (x < 0)
                       /\ (x # 0 /\ RowAbsSum(a, n) = Abs(x)) =>
                              Abs(v) = FullNotional(c.leverage)

\* a returned matrix with a row after a session on which one security alone
\* has a sentiment, and a row after a session on which a forward-filled
\* negative sentiment stands beside a positive one of a key that is no output
\* column
C12_Witness ==
    \E i \in CallIds :
        LET c == calls[i]
            a == Aligned(c)
        IN /\ returned(c)
           /\ DOMAIN InRange(c) # {}
           /\ \E n \in RowIds(c), k \in c.out.position.columns :
                /\ n + 1 \in RowIds(c)
                /\ RowAbsSum(a, n) = Abs(ValueOf(a.values[<<n, k>>]))
                /\ c.out.position.values[<<n + 1, k>>] = Num(-FullNotional(c.leverage))
           /\ \E n \in RowIds(c), k \in c.out.position.columns :
                /\ n + 1 \in RowIds(c)
                /\ ~\E r \in DOMAIN InRange(c) : r.gvkeyiid = k /\ r.date = Sessions(c)[n]
                /\ ValueOf(a.values[<<n, k>>]) < 0
                /\ \E m \in a.columns \ c.out.position.columns :
                      ValueOf(a.values[<<n, m>>]) > 0
                /\ ValueOf(c.out.position.values[<<n + 1, k>>]) < 0
                /\ ValueOf(c.out.position.values[<<n + 1, k>>]) > -FullNotional(c.leverage)

-----------------------------------------------------------------------------
(* C13.  Idempotence, no hidden state *)

ValidationIds == 1..Len(validations)

-----------------------------------------------------------------------------
(* C14.  Calendar-safe lookback dates in validate *)

\* C14: for a start that is a day of the calendar, the two start dates
\* validate hands to get are days of the calendar, exactly 100 and exactly 50
\* calendar days before start.
C14_LookbackDates ==
    \A i \in ValidationIds :
        LET v == validations[i]
        IN IsValidDate(v.start) =>
            /\ IsValidDate(v.out.start1_int)
            /\ IsValidDate(v.out.start2_int)
            /\ to_datetime(v.out.start1_int) = to_datetime(v.start) - 100
            /\ to_datetime(v.out.start2_int) = to_datetime(v.start) - 50

\* validate from 1 January 2024: the lookbacks cross the year boundary, to 23
\* September and 12 November 2023
C14_Witness ==
    \E i \in ValidationIds :
        /\ validations[i].start = 20240101
        /\ validations[i].out.start1_int = 20230923
        /\ validations[i].out.start2_int = 20231112

\* validate from 1 March 2100, a year that is no leap year: the 50-day
\* lookback crosses February to 10 January 2100
C14_WitnessCentury ==
    \E i \in ValidationIds :
        /\ validations[i].start = 21000301
        /\ validations[i].out.start2_int = 21000110

-----------------------------------------------------------------------------
(* C15.  Validator decision rule *)

\* the cell of table t labelled (day, k), as a number; 0 where t has none
ValueAt(t, day, k) ==
    LET c == at(t, day, k) IN IF c = NaN THEN 0 ELSE ValueOf(c)

\* the first and the last session of the overlap window of two matrices
WindowStart(p1, p2) == Max(p1.index[1], p2.index[1])

WindowEnd(p1, p2) == Min(p1.index[Len(p1.index)], p2.index[Len(p2.index)])

\* the rows of p2 whose session lies in the overlap window and is a row of p1
WindowRows(p1, p2) ==
    {i \in 1..Len(p2.index) :
        /\ p2.index[i] >= WindowStart(p1, p2)
        /\ p2.index[i] <= WindowEnd(p1, p2)
        /\ \E j \in 1..Len(p1.index) : p1.index[j] = p2.index[i]}

\* the sum of |p1 - p2| over the cells both matrices have on the sessions of
\* the overlap window, in position units
WindowDiff(p1, p2) ==
    LET common   == p1.columns \cap p2.columns
        rows     == WindowRows(p1, p2)
        row_diff == [i \in 1..Len(p2.index) |->
            IF i \in rows
            THEN SumOver(common,
                    [k \in common |->
                        Abs(ValueAt(p1, p2.index[i], k) - ValueAt(p2, p2.index[i], k))])
            ELSE 0]
    IN SumRange(row_diff, 1, Len(p2.index))

\* C15: validate runs get from its two lookback dates with its own end and
\* leverage; when both return a matrix validate returns a result, with
\* total_diff the sum of |pos1 - pos2| over the cells of the overlap window,
\* passed = (total_diff <= 1.0) and threshold 1.0.
C15_DecisionRule ==
    \A i \in ValidationIds :
        LET v  == validations[i]
            p1 == v.out.pos1.position
            p2 == v.out.pos2.position
        IN /\ v.out.pos1 = get(v.obs, v.leverage, v.out.start1_int, v.end)
           /\ v.out.pos1.status = "returned" =>
                v.out.pos2 = get(v.obs, v.leverage, v.out.start2_int, v.end)
           /\ (v.out.pos1.status = "returned" /\ v.out.pos2.status = "returned") =>
                /\ v.out.status = "returned"
                /\ v.out.result.total_diff = WindowDiff(p1, p2)
                /\ v.out.result.passed = (WindowDiff(p1, p2) <= ThresholdUnits)
                /\ v.out.result.threshold = 1
                /\ v.out.result.overlap_days = Cardinality(WindowRows(p1, p2))

\* a validate whose two matrices differ on a column both have: it returns
\* passed = false
C15_Witness ==
    \E i \in ValidationIds :
        LET v == validations[i]
        IN /\ v.out.status = "returned"
           /\ v.out.pos1.position.columns \cap v.out.pos2.position.columns # {}
           /\ v.out.result.total_diff > 0
           /\ v.out.result.passed = FALSE

\* a validate whose two matrices have a column and agree on the overlap
\* window: it returns passed = true
C15_WitnessPassed ==
    \E i \in ValidationIds :
        LET v == validations[i]
        IN /\ v.out.status = "returned"
           /\ v.out.pos1.position.columns \cap v.out.pos2.position.columns # {}
           /\ v.out.result.total_diff = 0
           /\ v.out.result.passed = TRUE

-----------------------------------------------------------------------------
(* C19.  Validator soundness over the union of securities *)

\* C19: when validate returns passed = true, the two matrices differ by at
\* most 1.0 on every session of the overlap window and every security that
\* has a column in either, a security with no column in a matrix holding 0.
C19_ValidatorSound ==
    \A i \in ValidationIds :
        LET v  == validations[i]
            p1 == v.out.pos1.position
            p2 == v.out.pos2.position
        IN (v.out.status = "returned" /\ v.out.result.passed) =>
            \A n \in WindowRows(p1, p2) :
                \A k \in p1.columns \cup p2.columns :
                    Abs(ValueAt(p1, p2.index[n], k) - ValueAt(p2, p2.index[n], k))
                        <= ThresholdUnits

\* C19 for the securities that have a column in both matrices
C19_ValidatorSoundOnCommonColumns ==
    \A i \in ValidationIds :
        LET v  == validations[i]
            p1 == v.out.pos1.position
            p2 == v.out.pos2.position
        IN (v.out.status = "returned" /\ v.out.result.passed) =>
            \A n \in WindowRows(p1, p2) :
                \A k \in p1.columns \cap p2.columns :
                    Abs(ValueAt(p1, p2.index[n], k) - ValueAt(p2, p2.index[n], k))
                        <= ThresholdUnits

-----------------------------------------------------------------------------
(* C16.  Calendar failure is surfaced, not retried *)

\* the resolver's call fails: an error status, or an answer with neither a
\* 'dates' nor a 'trading_days' field
CalendarFails(response) == response \notin {"dates", "trading_days"}

\* the number of gets a validate ran
GetsOf(v) == IF v.out.pos2.status = "not_run" THEN 1 ELSE 2

\* C16: a get whose resolver call fails raises and returns no matrix; a
\* validate raises when the resolver fails for its first get, without
\* running the second, and when it fails for the second; every get has sent
\* the resolver exactly one request; no call has changed the rows of the
\* store, and its date column is as constructed while only failed calls
\* were made.
C16_CalendarFailureSurfaced ==
    /\ \A i \in CallIds :
          CalendarFails(calls[i].response) =>
              /\ calls[i].out.status = "raised"
              /\ calls[i].out.position = Table(<<>>, {}, <<>>)
    /\ \A i \in ValidationIds :
          LET v == validations[i]
          IN /\ CalendarFails(v.response1) =>
                  /\ v.out.status = "raised"
                  /\ v.out.pos1.status = "raised"
                  /\ v.out.pos2.status = "not_run"
             /\ (v.out.pos1.status = "returned" /\ CalendarFails(v.response2)) =>
                  /\ v.out.status = "raised"
                  /\ v.out.pos2.status = "raised"
    /\ calendar_requests =
          Len(calls) + SumRange([i \in ValidationIds |-> GetsOf(validations[i])],
                                1, Len(validations))
    /\ \A i \in CallIds : calls[i].obs = sentiment_df
    /\ ( /\ \A i \in CallIds : CalendarFails(calls[i].response)
         /\ \A i \in ValidationIds : CalendarFails(validations[i].response1) )
       => date_dtype = "object"

\* a get that failed on an answer of unknown format, a get that failed on an
\* error status, and a validate whose second get failed, on a store with
\* observations: four requests, each get one
C16_Witness ==
    /\ Len(calls) = 2
    /\ calls[1].response = "unknown_format" /\ calls[1].out.status = "raised"
    /\ calls[2].response = "http_error" /\ calls[2].out.status = "raised"
    /\ Len(validations) = 1
    /\ validations[1].out.pos1.status = "returned"
    /\ validations[1].response2 = "unknown_format"
    /\ validations[1].out.status = "raised"
    /\ DOMAIN sentiment_df # {}
    /\ calendar_requests = 4

-----------------------------------------------------------------------------
(* C17.  Inclusive range filter *)

\* the rows of the store of call c dated start <= d <= end
WithinRange(c) ==
    LET keep == {r \in DOMAIN c.obs :
                    to_datetime(c.start) <= r.date /\ r.date <= to_datetime(c.end)}
    IN [r \in keep |-> c.obs[r]]

\* C17: two calls of get with the same arguments and leverage whose stores
\* hold the same observations dated start <= d <= end have the same outcome,
\* whatever they hold outside the range; and the columns of a matrix that get
\* returns are keys of observations dated inside the range, the 9-character
\* key of one dated exactly on start or exactly on end being among them.
C17_InclusiveRange ==
    /\ \A i \in CallIds, j \in CallIds :
          ( /\ calls[i].start = calls[j].start
            /\ calls[i].end = calls[j].end
            /\ calls[i].leverage = calls[j].leverage
            /\ WithinRange(calls[i]) = WithinRange(calls[j]) )
          => calls[i].out = calls[j].out
    /\ \A i \in CallIds :
          returned(calls[i]) =>
              /\ calls[i].out.position.columns \subseteq
                    {r.gvkeyiid : r \in DOMAIN WithinRange(calls[i])}
              /\ \A r \in DOMAIN calls[i].obs :
                    ( /\ Len(r.gvkeyiid) = 9
                      /\ r.date \in {to_datetime(calls[i].start), to_datetime(calls[i].end)} )
                    => r.gvkeyiid \in calls[i].out.position.columns

\* two calls with the same arguments that returned the same matrix with a
\* column: the store of the first holds an observation dated on the start,
\* that of the second also one dated before the start
C17_Witness ==
    \E i \in CallIds, j \in CallIds :
        /\ calls[i].start = calls[j].start
        /\ calls[i].end = calls[j].end
        /\ returned(calls[i]) /\ returned(calls[j])
        /\ calls[i].out = calls[j].out
        /\ calls[i].out.position.columns # {}
        /\ \E r \in DOMAIN calls[i].obs : r.date = to_datetime(calls[i].start)
        /\ \E r \in DOMAIN calls[j].obs :
              r.date < to_datetime(calls[j].start) /\ r \notin DOMAIN calls[i].obs

\* the same with an observation dated on the end, and one dated after the end
C17_WitnessEnd ==
    \E i \in CallIds, j \in CallIds :
        /\ calls[i].start = calls[j].start
        /\ calls[i].end = calls[j].end
        /\ returned(calls[i]) /\ returned(calls[j])
        /\ calls[i].out = calls[j].out
        /\ calls[i].out.position.columns # {}
        /\ \E r \in DOMAIN calls[i].obs : r.date = to_datetime(calls[i].end)
        /\ \E r \in DOMAIN calls[j].obs :
              r.date > to_datetime(calls[j].end) /\ r \notin DOMAIN calls[i].obs

-----------------------------------------------------------------------------
(* C18.  Malformed identifiers do not contaminate the output *)

\* the rows of df whose key has 9 characters
WellFormed(df) ==
    [r \in {x \in DOMAIN df : Len(x.gvkeyiid) = 9} |-> df[r]]

\* C18: the outcome of a call of get is the outcome of the same call on the
\* store without its records of malformed keys.
C18_MalformedDoNotContaminate ==
    \A i \in CallIds :
        calls[i].out =
            get(WellFormed(calls[i].obs), calls[i].leverage, calls[i].start, calls[i].end)

\* C18 for the columns: the records of malformed keys add no column and
\* remove none, when both calls return and a well-formed record is in range
C18_SameColumns ==
    \A i \in CallIds :
        LET c     == calls[i]
            clean == get(WellFormed(c.obs), c.leverage, c.start, c.end)
        IN (returned(c) /\ clean.status = "returned"
            /\ DOMAIN filter_range(WellFormed(c.obs), c.start, c.end) # {}) =>
              /\ c.out.position.columns = clean.position.columns
              /\ c.out.position.index = clean.position.index

\* C18 for the cells, on stores without duplicates when both calls return
\* the same columns (violated: a malformed key's sentiment is part of the row
\* sum that the well-formed keys' weights are divided by)
C18_NoDilution ==
    \A i \in CallIds :
        LET c     == calls[i]
            clean == get(WellFormed(c.obs), c.leverage, c.start, c.end)
        IN (returned(c) /\ clean.status = "returned" /\ ~HasDuplicates(c.obs)
            /\ c.out.position.columns = clean.position.columns) =>
              c.out.position.values = clean.position.values

-----------------------------------------------------------------------------
(* C20.  Bounded memory, convergence after warm-up *)

\* calls c and d on the same store with the same leverage and end, c starting
\* before d and d not after its end
EarlierStart(c, d) ==
    /\ SameAlpha(c, d)
    /\ c.end = d.end
    /\ to_datetime(c.start) < to_datetime(d.start)
    /\ to_datetime(d.start) <= to_datetime(d.end)

\* C20: of two calls of get on the same store with the same leverage and end
\* and start dates s1 < s2 <= end, both return a matrix, and on every session
\* with at least 6 earlier sessions in the later-starting matrix the two hold
\* the same value for every security, a security with no column holding 0.
C20_Convergence ==
    \A i \in CallIds, j \in CallIds :
        LET c == calls[i]
            d == calls[j]
        IN EarlierStart(c, d) =>
            \A n \in 1..Len(Sessions(d)) : n >= 7 =>
                /\ returned(c) /\ returned(d)
                /\ HasRowOfDay(c, Sessions(d)[n])
                /\ \A k \in Keys :
                      CellAt(c, RowOfDay(c, Sessions(d)[n]), k) = CellAt(d, n, k)

\* C20 for the stores that hold no (security key, date) pair twice
C20_ConvergenceWithoutDuplicates ==
    \A i \in CallIds, j \in CallIds :
        LET c == calls[i]
            d == calls[j]
        IN (EarlierStart(c, d) /\ ~HasDuplicates(c.obs)) =>
            \A n \in 1..Len(Sessions(d)) : n >= 7 =>
                /\ returned(c) /\ returned(d)
                /\ HasRowOfDay(c, Sessions(d)[n])
                /\ \A k \in Keys :
                      CellAt(c, RowOfDay(c, Sessions(d)[n]), k) = CellAt(d, n, k)

\* two returned matrices of a store without duplicates that differ on the
\* sixth session of the later-starting one, which has a seventh session
C20_WitnessWarmUp ==
    \E i \in CallIds, j \in CallIds :
        LET c == calls[i]
            d == calls[j]
        IN /\ EarlierStart(c, d)
           /\ ~HasDuplicates(c.obs)
           /\ returned(c) /\ returned(d)
           /\ Len(Sessions(d)) >= 7
           /\ \E k \in Keys :
                 CellAt(c, RowOfDay(c, Sessions(d)[6]), k) # CellAt(d, 6, k)

-----------------------------------------------------------------------------
(* C21.  validate passes when there is no earlier history *)

\* the store of validation v holds no observation dated before its second
\* lookback date, start - 50 days
NoEarlierHistory(v) ==
    \A r \in DOMAIN v.obs : r.date >= to_datetime(v.out.start2_int)

\* the sessions of [start - 50 days, end] of validation v
SecondRunSessions(v) ==
    {d \in to_datetime(v.out.start2_int)..to_datetime(v.end) : dayofweek(d) < 5}

\* C21: a validate on a store with no observation dated before start - 50
\* days, both of whose runs of get return, finds the two matrices equal on
\* every cell of the overlap window and returns passed = true, total_diff = 0,
\* max_position_diff = 0 and overlap_days = the number of sessions of
\* [start - 50 days, end].
C21_NoEarlierHistoryPasses ==
    \A i \in ValidationIds :
        LET v  == validations[i]
            p1 == v.out.pos1.position
            p2 == v.out.pos2.position
        IN (NoEarlierHistory(v) /\ v.out.status = "returned") =>
            /\ \A n \in WindowRows(p1, p2) :
                   \A k \in p1.columns \cup p2.columns :
                       at(p1, p2.index[n], k) = at(p2, p2.index[n], k)
            /\ v.out.result.passed = TRUE
            /\ v.out.result.total_diff = 0
            /\ v.out.result.max_position_diff = Num(0)
            /\ v.out.result.overlap_days = Cardinality(SecondRunSessions(v))

\* a validate on a store whose observations all lie in the range of the
\* second run, both runs holding a position that is not zero
C21_Witness ==
    \E i \in ValidationIds :
        LET v == validations[i]
        IN /\ NoEarlierHistory(v)
           /\ v.obs # EmptyBag
           /\ v.out.status = "returned"
           /\ \E x \in DOMAIN v.out.pos2.position.values :
                  v.out.pos2.position.values[x] \notin {NaN, Num(0)}
           /\ v.out.result.passed = TRUE
           /\ v.out.result.overlap_days = Cardinality(SecondRunSessions(v))

-----------------------------------------------------------------------------
(* C22.  Observations on non-session dates are discarded *)

\* observation r lies in the range of call c on a day that is no session
OffSession(c, r) ==
    /\ r.date >= to_datetime(c.start)
    /\ r.date <= to_datetime(c.end)
    /\ dayofweek(r.date) >= 5

\* call w read the store of call c with one more observation, r, and has the
\* arguments of c
WithExtra(w, c, r) ==
    /\ w.start = c.start
    /\ w.end = c.end
    /\ w.leverage = c.leverage
    /\ w.obs = c.obs (+) SetToBag({r})

\* the matrix of call w is that of call c, but for a column of zeros of the
\* security of r when c's store has no observation of it in the range
SameButZeroColumn(w, c, r) ==
    LET pw == w.out.position
        pc == c.out.position
    IN /\ pw.index = pc.index
       /\ pc.columns \subseteq pw.columns
       /\ \A k \in pc.columns : \A n \in 1..Len(pc.index) :
              pw.values[<<n, k>>] = pc.values[<<n, k>>]
       /\ \A k \in pw.columns \ pc.columns :
              /\ k = r.gvkeyiid
              /\ \A x \in DOMAIN c.obs :
                     x.gvkeyiid = k =>
                        (x.date < to_datetime(c.start) \/ x.date > to_datetime(c.end))
              /\ \A n \in 1..Len(pw.index) : pw.values[<<n, k>>] = Num(0)

\* C22: an observation dated inside [start, end] on a day that is no session
\* changes nothing of what get returns: with it and without it get returns
\* the same cells, the observation adding at most a column of zeros for a
\* security with no other observation in the range.
C22_OffSessionDiscarded ==
    \A i \in 1..Len(calls) : \A j \in 1..Len(calls) :
        \A r \in Observations :
            (WithExtra(calls[j], calls[i], r) /\ OffSession(calls[i], r)) =>
                /\ calls[j].out.status = "returned"
                /\ calls[i].out.status = "returned"
                /\ SameButZeroColumn(calls[j], calls[i], r)

\* C22 on stores that hold no (date, key) pair twice
C22_OffSessionDiscardedWithoutDuplicates ==
    \A i \in 1..Len(calls) : \A j \in 1..Len(calls) :
        \A r \in Observations :
            (/\ WithExtra(calls[j], calls[i], r)
             /\ OffSession(calls[i], r)
             /\ ~pivot_raises(calls[j].obs)) =>
                /\ calls[j].out.status = "returned"
                /\ calls[i].out.status = "returned"
                /\ SameButZeroColumn(calls[j], calls[i], r)

\* an observation of Saturday is added to a store that holds an observation
\* of Friday for the same security; both calls return the same position, which
\* is not zero on Monday
C22_WitnessDiscarded ==
    \E r \in Observations :
        /\ Len(calls) = 2
        /\ WithExtra(calls[2], calls[1], r)
        /\ OffSession(calls[1], r)
        /\ calls[2].out.status = "returned"
        /\ \E x \in DOMAIN calls[1].obs :
               x.gvkeyiid = r.gvkeyiid /\ x.sentiment # r.sentiment
        /\ \E n \in 1..Len(calls[2].out.position.index) :
               calls[2].out.position.values[<<n, r.gvkeyiid>>] \notin {NaN, Num(0)}

-----------------------------------------------------------------------------
(* C23.  Gross exposure bound *)

RECURSIVE SumMag(_, _)
\* the sum of the magnitudes f[k], k in S
SumMag(S, f) ==
    IF S = {} THEN ZeroMag
    ELSE LET k == CHOOSE x \in S : TRUE IN AddMag(f[k], SumMag(S \ {k}, f))

\* the sum of the absolute values of row n of table t, in units of 2^-65
GrossExposure(t, n) ==
    SumMag(t.columns, [k \in t.columns |-> ValueOf(t.values[<<n, k>>]).mag])

\* the call made it to the clip: rows were in range and the pivot did not raise
ReachedClip(c) ==
    /\ DOMAIN filter_range(c.obs, c.start, c.end) # {}
    /\ ~pivot_raises(filter_range(c.obs, c.start, c.end))

\* the clip of call c changed no cell
ClipChangedNothing(c) ==
    LET before == shifted_float64(filter_range(c.obs, c.start, c.end), c.leverage,
                                  get_trading_days(c.start, c.end))
    IN clip_float64(before) = before

\* (1e8 * leverage) / 2^30 in units of 2^-65
RoundingSlack(lev) ==
    MulSmall(Pow2Mag(42), NotionalOdd * ((2 * lev.num) \div lev.den))

\* C23 as claimed: in every row of a matrix that get returns the absolute
\* values of the cells sum to at most 1e8 * leverage, and with a leverage of
\* at most 1.0 the clip leaves every cell as it was.
C23_GrossExposureBound ==
    \A i \in 1..Len(calls) :
        LET c == calls[i]
        IN /\ c.out.status = "returned" =>
                \A n \in 1..Len(c.out.position.index) :
                    LessEqMag(GrossExposure(c.out.position, n), NotionalMag(c.leverage))
           /\ (ReachedClip(c) /\ c.leverage.num <= c.leverage.den) =>
                ClipChangedNothing(c)

\* C23 amended: in every row of a matrix that get returns the absolute values
\* of the cells sum to at most 1e8 * leverage * (1 + 2^-30), the excess over
\* 1e8 * leverage being the rounding of the float64 division and product; and
\* with a leverage of at most 1.0 the clip leaves every cell as it was.
C23_GrossExposureWithinRounding ==
    \A i \in 1..Len(calls) :
        LET c == calls[i]
        IN /\ c.out.status = "returned" =>
                \A n \in 1..Len(c.out.position.index) :
                    LessEqMag(GrossExposure(c.out.position, n),
                              AddMag(NotionalMag(c.leverage), RoundingSlack(c.leverage)))
           /\ (ReachedClip(c) /\ c.leverage.num <= c.leverage.den) =>
                ClipChangedNothing(c)

\* a matrix returned at leverage 1.0 with a row of two securities whose
\* absolute values sum to more than 1e8, none of them changed by the clip
C23_Witness ==
    \E i \in 1..Len(calls) :
        LET c == calls[i]
        IN /\ c.out.status = "returned"
           /\ c.leverage.num = c.leverage.den
           /\ ReachedClip(c)
           /\ ClipChangedNothing(c)
           /\ Cardinality(c.out.position.columns) = 2
           /\ \E n \in 1..Len(c.out.position.index) :
                ~LessEqMag(GrossExposure(c.out.position, n), NotionalMag(c.leverage))

\* a matrix returned at leverage 2.0 whose clip changed a cell
C23_WitnessClipped ==
    \E i \in 1..Len(calls) :
        LET c == calls[i]
        IN /\ c.out.status = "returned"
           /\ ReachedClip(c)
           /\ c.leverage.num > c.leverage.den
           /\ ~ClipChangedNothing(c)

-----------------------------------------------------------------------------
(* mcp_server: the lazily loaded collaborators (lines 30-58).               *)
(*                                                                         *)
(* The endpoints are plain functions, which FastAPI runs on the threads of  *)
(* its pool: two requests can be inside a getter at the same time, and the  *)
(* interpreter can switch threads between any two steps of a getter.        *)

Getters == {"get_scraper", "get_sentiment_engine", "get_finter"}

\* the global a getter loads
global_of(getter) ==
    CASE getter = "get_scraper"          -> "_scraper"
      [] getter = "get_sentiment_engine" -> "_sentiment_engine"
      [] getter = "get_finter"           -> "_finter"

\* the class a getter loads
class_of(getter) ==
    CASE getter = "get_scraper"          -> "RedditScraper"
      [] getter = "get_sentiment_engine" -> "SentimentEngine"
      [] getter = "get_finter"           -> "FinterAPI"

\* the n-th object constructed of class c
Object(c, n) == [class |-> c, n |-> n]

\* no alpha object is in use
NoAlpha ==
    /\ sentiment_df = EmptyBag
    /\ date_dtype = "object"
    /\ leverage = [num |-> 1, den |-> 1]
    /\ calls = <<>>
    /\ validations = <<>>
    /\ calendar_requests = 0

\* the variables the getters do not touch
getter_unchanged == <<responses, alpha_vars, script_vars, engine_vars, finter_vars>>

\* a request on thread t enters a getter
CallGetter(t, getter) ==
    /\ threads[t].pc = "idle"
    /\ threads' = [threads EXCEPT
                      ![t] = [getter |-> getter, pc |-> "check", value |-> None]]
    /\ UNCHANGED <<module_globals, finter_module, constructed, handed_out>>
    /\ UNCHANGED getter_unchanged

\* lines 38, 46, 54: if _x is None
CheckNone(t) ==
    /\ threads[t].pc = "check"
    /\ threads' = [threads EXCEPT
                      ![t].pc = IF module_globals[global_of(threads[t].getter)] = None
                                THEN "import" ELSE "return"]
    /\ UNCHANGED <<module_globals, finter_module, constructed, handed_out>>
    /\ UNCHANGED getter_unchanged

\* finter_client.py line 305, run by the first import of the module, under
\* the import lock: finter = FinterAPI()
finter_after_import ==
    IF finter_module = None
    THEN Object("FinterAPI", constructed["FinterAPI"] + 1)
    ELSE finter_module

constructed_after_import ==
    IF finter_module = None
    THEN [constructed EXCEPT !["FinterAPI"] = @ + 1]
    ELSE constructed

\* lines 39, 47, 55: the import inside the getter.  scraper imports no module
\* of the repository; sentiment imports finter_client (sentiment.py line 7);
\* get_finter takes the finter of finter_client as the value to assign.
ImportModule(t) ==
    /\ threads[t].pc = "import"
    /\ IF threads[t].getter = "get_scraper"
       THEN /\ UNCHANGED <<finter_module, constructed>>
            /\ threads' = [threads EXCEPT ![t].pc = "construct"]
       ELSE /\ finter_module' = finter_after_import
            /\ constructed' = constructed_after_import
            /\ threads' = [threads EXCEPT
                  ![t].pc = IF threads[t].getter = "get_finter"
                            THEN "assign" ELSE "construct",
                  ![t].value = IF threads[t].getter = "get_finter"
                               THEN finter_after_import ELSE None]
    /\ UNCHANGED <<module_globals, handed_out>>
    /\ UNCHANGED getter_unchanged

\* lines 40, 48, right-hand side: RedditScraper() or SentimentEngine()
ConstructObject(t) ==
    /\ threads[t].pc = "construct"
    /\ constructed' = [constructed EXCEPT ![class_of(threads[t].getter)] = @ + 1]
    /\ threads' = [threads EXCEPT
          ![t].pc = "assign",
          ![t].value = Object(class_of(threads[t].getter),
                              constructed[class_of(threads[t].getter)] + 1)]
    /\ UNCHANGED <<module_globals, finter_module, handed_out>>
    /\ UNCHANGED getter_unchanged

\* lines 40, 48, 56: the store to the global
AssignGlobal(t) ==
    /\ threads[t].pc = "assign"
    /\ module_globals' = [module_globals EXCEPT
                             ![global_of(threads[t].getter)] = threads[t].value]
    /\ threads' = [threads EXCEPT ![t].pc = "return"]
    /\ UNCHANGED <<finter_module, constructed, handed_out>>
    /\ UNCHANGED getter_unchanged

\* lines 41, 49, 57: return _x, which reads the global
ReturnGlobal(t) ==
    /\ threads[t].pc = "return"
    /\ handed_out' = handed_out \cup
           {<<threads[t].getter, module_globals[global_of(threads[t].getter)]>>}
    /\ threads' = [threads EXCEPT ![t] = Idle]
    /\ UNCHANGED <<module_globals, finter_module, constructed>>
    /\ UNCHANGED getter_unchanged

InitLazy == NoAlpha /\ ServerInit /\ ScriptInit /\ EngineInit /\ FinterInit

NextLazy ==
    \E t \in RequestThreads :
        \/ \E getter \in Getters : CallGetter(t, getter)
        \/ CheckNone(t)
        \/ ImportModule(t)
        \/ ConstructObject(t)
        \/ AssignGlobal(t)
        \/ ReturnGlobal(t)

SpecLazy == InitLazy /\ [][NextLazy]_vars

-----------------------------------------------------------------------------
(* C24 *)

\* C24: each of RedditScraper, SentimentEngine and FinterAPI is constructed at
\* most once in the process, and all the calls of one getter return the same
\* object, two requests running a getter at the same time included.
C24_SingleConstruction ==
    /\ \A c \in Classes : constructed[c] <= 1
    /\ \A r1, r2 \in handed_out : r1[1] = r2[1] => r1[2] = r2[2]

\* what holds of get_finter: the object comes from the import of finter_client
C24_FinterSingleConstruction ==
    /\ constructed["FinterAPI"] <= 1
    /\ \A r1, r2 \in handed_out :
           r1[1] = "get_finter" /\ r2[1] = "get_finter" => r1[2] = r2[2]

\* two calls of get_finter are about to return
C24_WitnessFinter ==
    /\ \E r \in handed_out : r[1] = "get_finter"
    /\ \A t \in RequestThreads : threads[t].pc = "return"
    /\ \A t \in RequestThreads : threads[t].getter = "get_finter"

-----------------------------------------------------------------------------
(* mcp_server: the endpoint /tools/generate_alpha (lines 182-241).          *)

\* the requests: the sentiment_data list, start_date and end_date, leverage
AlphaRequests ==
    [sentiment_data : StoresOf(ValidateObservations, MaxObs),
     dates          : ValidateRequests,
     leverage       : Leverages]

\* fastapi.HTTPException(status_code, detail)
HTTPException(status_code, detail) ==
    [type |-> "HTTPException", status_code |-> status_code, detail |-> detail]

\* the exception a failed call of get or validate raised
RaisedException(error) == [type |-> error, status_code |-> 0, detail |-> ""]

\* validate was not called
NotValidated == [status |-> "not_run", error |-> "", result |-> NoResult]

\* the outcome of the try block: the exception it raised, if any, with the
\* outcomes of the calls of get and validate it made
TryOutcome(exception, position, validation) ==
    [exception |-> exception, position |-> position, validation |-> validation]

NoException == [type |-> "", status_code |-> 0, detail |-> ""]

\* lines 217-233: the try block after the call of validate
after_validate(position, validation) ==
    IF validation.status = "raised"
    THEN TryOutcome(RaisedException(validation.error), position, validation)
    ELSE TryOutcome(NoException, position, validation)

\* lines 211-233: the try block after the call of get
after_get(request, position) ==
    IF position.status = "raised"
    THEN TryOutcome(RaisedException(position.error), position, NotValidated)
    ELSE after_validate(position,
                        validate(request.sentiment_data, request.leverage,
                                 request.dates[1], request.dates[2],
                                 "dates", "dates"))

\* lines 202-233: the try block
generate_alpha_try(request) ==
    IF request.sentiment_data = EmptyBag
    THEN TryOutcome(HTTPException(400, "No sentiment data provided"),
                    NotRun, NotValidated)
    ELSE after_get(request,
                   get(request.sentiment_data, request.leverage,
                       request.dates[1], request.dates[2]))

\* lines 235-239: except Exception catches every exception of the try block,
\* HTTPException being a subclass of Exception, and answers 500
answer(request, outcome) ==
    [request        |-> request,
     status_code    |-> IF outcome.exception.type = "" THEN 200 ELSE 500,
     caught         |-> outcome.exception,
     get_run        |-> outcome.position.status # "not_run",
     validate_run   |-> outcome.validation.status # "not_run",
     validation_passed |-> outcome.validation.result.passed]

generate_alpha_endpoint(request) == answer(request, generate_alpha_try(request))

\* a request to /tools/generate_alpha is answered; one request is followed
GenerateAlpha(request) ==
    /\ Len(responses) < 1
    /\ responses' = Append(responses, generate_alpha_endpoint(request))
    /\ UNCHANGED <<module_globals, finter_module, constructed, threads, handed_out>>
    /\ UNCHANGED <<alpha_vars, script_vars, engine_vars, finter_vars>>

InitEndpoint == NoAlpha /\ ServerInit /\ ScriptInit /\ EngineInit /\ FinterInit

NextEndpoint == \E request \in AlphaRequests : GenerateAlpha(request)

SpecEndpoint == InitEndpoint /\ [][NextEndpoint]_vars

-----------------------------------------------------------------------------
(* C25 *)

\* C25: a request to generate_alpha with an empty sentiment_data list is
\* answered with status 400 and neither get nor validate is run for it.
C25_EmptyInputIsClientError ==
    \A i \in 1..Len(responses) :
        responses[i].request.sentiment_data = EmptyBag =>
            /\ responses[i].status_code = 400
            /\ ~responses[i].get_run
            /\ ~responses[i].validate_run

\* what holds: the request is answered 500, the HTTPException of line 204
\* being the exception caught, and neither get nor validate is run for it
C25_EmptyInputAnswered500 ==
    \A i \in 1..Len(responses) :
        responses[i].request.sentiment_data = EmptyBag =>
            /\ responses[i].status_code = 500
            /\ responses[i].caught = HTTPException(400, "No sentiment data provided")
            /\ ~responses[i].get_run
            /\ ~responses[i].validate_run

\* an empty request has been answered, and so has a request with data
C25_WitnessEmpty ==
    \E i \in 1..Len(responses) : responses[i].request.sentiment_data = EmptyBag

C25_WitnessSuccess ==
    \E i \in 1..Len(responses) :
        responses[i].status_code = 200 /\ responses[i].validation_passed

-----------------------------------------------------------------------------
(* submit_to_finter.main (lines 38-282).                                    *)
(*                                                                         *)
(* A run is given by what its collaborators answer: whether the scraper     *)
(* finds mentions, the observations those mentions stand for once they are  *)
(* scored and mapped (finter_df), the command line, and whether the         *)
(* /submission endpoint accepts the model.                                  *)

\* the mentions of a run are scraped between start_date and end_date (lines
\* 77-83): observations on Monday 8 and Tuesday 9 January 2024, for runs from
\* Friday 5 and from Monday 8 to Tuesday 9 January
ScriptObsDates == {20240108, 20240109}

ScriptRequests == { <<20240105, 20240109>>, <<20240108, 20240109>> }

Runs ==
    [mentions  : {"empty", "found"},
     finter_df : StoresOf(ObservationsOf(FillKeys, ScriptObsDates), MaxObs),
     leverage  : Leverages,
     dates     : ScriptRequests,
     dry_run   : BOOLEAN,
     api       : {"accepts", "rejects"}]

\* main returns exit_code, after the steps it ran; exception is the exception
\* its except clause caught (lines 262-282), "" when none was raised
Exit(exit_code, exception, steps) ==
    [exit_code |-> exit_code, exception |-> exception, steps |-> steps]

\* lines 193-260: the positions are saved; unless --dry-run a FinterAPI is
\* constructed and submit_model is called, which raises when the API rejects
save_and_submit(args, steps) ==
    IF args.dry_run THEN Exit(0, "", steps \o <<"save">>)
    ELSE IF args.api = "rejects"
    THEN Exit(1, "Exception", steps \o <<"save", "submit_model">>)
    ELSE Exit(0, "", steps \o <<"save", "submit_model">>)

\* lines 174-185: main reads validation_result['is_valid'], then
\* validation_result['max_difference'] and validation_result['threshold'];
\* the subscript of a key the dict does not have raises KeyError
gate(args, validation_result, steps) ==
    IF "is_valid" \notin DOMAIN validation_result
    THEN Exit(1, "KeyError", steps)
    ELSE IF "max_difference" \notin DOMAIN validation_result
    THEN Exit(1, "KeyError", steps)
    ELSE IF ~validation_result["is_valid"]
    THEN Exit(1, "", steps)
    ELSE save_and_submit(args, steps)

\* lines 172-260, validation being the outcome of alpha.validate
after_validation(args, validation, steps) ==
    IF validation.status = "raised"
    THEN Exit(1, validation.error, steps)
    ELSE gate(args, validation.result, steps)

\* lines 143-260, position being the outcome of alpha.get
after_positions(args, position, steps) ==
    IF position.status = "raised" THEN Exit(1, position.error, steps)
    ELSE IF empty(position.position) THEN Exit(1, "", steps)
    ELSE after_validation(args,
                          validate(args.finter_df, args.leverage,
                                   args.dates[1], args.dates[2], "dates", "dates"),
                          steps \o <<"validate">>)

\* lines 117-260: the steps after STEP 2
after_sentiment(args, steps) ==
    IF args.finter_df = EmptyBag
    THEN Exit(1, "", steps \o <<"map_to_gvkeyiid">>)
    ELSE after_positions(args,
                         get(args.finter_df, args.leverage,
                             args.dates[1], args.dates[2]),
                         steps \o <<"map_to_gvkeyiid", "get">>)

\* sentiment.py line 34, analyze_sentiment(text): 'if not text' takes the
\* truth value of text, which pandas refuses for a DataFrame (ValueError);
\* the test is outside the try block of the method
analyze_sentiment_raises(argument) == argument = "DataFrame"

\* lines 67-282.  STEP 2 (line 99) hands analyze_sentiment the DataFrame of
\* the mentions.
main(args) ==
    IF args.mentions = "empty" THEN Exit(1, "", <<"scrape">>)
    ELSE IF analyze_sentiment_raises("DataFrame")
    THEN Exit(1, "ValueError", <<"scrape", "analyze_sentiment">>)
    ELSE after_sentiment(args, <<"scrape", "analyze_sentiment">>)

\* python submit_to_finter.py; one run is followed
Main(args) ==
    /\ Len(runs) < 1
    /\ runs' = Append(runs, [args |-> args, out |-> main(args)])
    /\ UNCHANGED <<alpha_vars, server_vars, engine_vars, finter_vars>>

InitScript == NoAlpha /\ ServerInit /\ ScriptInit /\ EngineInit /\ FinterInit

NextScript == \E args \in Runs : Main(args)

SpecScript == InitScript /\ [][NextScript]_vars

-----------------------------------------------------------------------------
(* C26 *)

\* what alpha.get and alpha.validate report on the observations of a run
PositionsOf(run) ==
    get(run.args.finter_df, run.args.leverage, run.args.dates[1], run.args.dates[2])

ValidationOf(run) ==
    validate(run.args.finter_df, run.args.leverage,
             run.args.dates[1], run.args.dates[2], "dates", "dates")

\* the run has mentions, mapped observations and positions to validate
ReachesValidation(run, position) ==
    /\ run.args.mentions = "found"
    /\ run.args.finter_df # EmptyBag
    /\ position.status = "returned"
    /\ ~empty(position.position)

Ran(run, step) == \E i \in 1..Len(run.out.steps) : run.out.steps[i] = step

\* the conclusion of the claim for a run whose validation is v
Gated(run, v) ==
    /\ (v.status = "returned" /\ v.result.passed) =>
           /\ Ran(run, "save")
           /\ (~run.args.dry_run <=> Ran(run, "submit_model"))
           /\ (run.args.dry_run \/ run.args.api = "accepts") => run.out.exit_code = 0
    /\ (v.status = "returned" /\ ~v.result.passed) =>
           /\ run.out.exit_code = 1
           /\ ~Ran(run, "submit_model")

\* C26: main reads the outcome of validate from the dict validate returns:
\* when validate reports success main saves the positions, calls submit_model
\* unless --dry-run, and returns 0; when validate reports failure main returns
\* 1 without calling submit_model; submit_model is never called before
\* validate has reported success.
C26_SubmissionGatedOnValidation ==
    \A i \in 1..Len(runs) :
        /\ ReachesValidation(runs[i], PositionsOf(runs[i])) =>
               Gated(runs[i], ValidationOf(runs[i]))
        /\ Ran(runs[i], "submit_model") =>
               /\ Ran(runs[i], "validate")
               /\ ValidationOf(runs[i]).result.passed

\* what holds: submit_model is never called, and no run returns 0
C26_NeverSubmits ==
    \A i \in 1..Len(runs) :
        ~Ran(runs[i], "submit_model") /\ runs[i].out.exit_code = 1

\* what holds of the gate: whatever validate returns, line 174 raises KeyError
C26_GateRaisesKeyError ==
    \A i \in 1..Len(runs) :
        ValidationOf(runs[i]).status = "returned" =>
            gate(runs[i].args, ValidationOf(runs[i]).result, <<>>).exception
                = "KeyError"

\* a run whose observations validate reports success on
C26_WitnessWouldPass ==
    \E i \in 1..Len(runs) :
        /\ ReachesValidation(runs[i], PositionsOf(runs[i]))
        /\ ValidationOf(runs[i]).status = "returned"
        /\ ValidationOf(runs[i]).result.passed

-----------------------------------------------------------------------------
(* SentimentEngine.calculate_daily_sentiment (sentiment.py lines 87-108).   *)
(*                                                                         *)
(* A mention is a row (gvkeyiid, date, text, score, ticker) of the frame    *)
(* map_to_gvkeyiid returns.  A polarity is held as an integer number of     *)
(* 1e-5, a sentiment as an integer number of 1e-4, a mean as a fraction in  *)
(* lowest terms.                                                            *)

\* the texts of the mentions, and the polarity TextBlob gives each
Texts == {"", "great", "terrible", "not bad"}

polarity(text) ==
    CASE text = "great"    -> 80000
      [] text = "terrible" -> -100000
      [] text = "not bad"  -> 34999
      [] OTHER             -> 0

\* round(x, 4) of a polarity: to the nearest 1e-4, ties to even
round_4(p) ==
    LET q == p \div 10
        r == p % 10
    IN IF r > 5 \/ (r = 5 /\ q % 2 = 1) THEN q + 1 ELSE q

\* lines 32-42
analyze_sentiment(text) == IF text = "" THEN 0 ELSE round_4(polarity(text))

TickerOf(key) == IF key = "001690001" THEN "AAPL" ELSE "MSFT"

MentionDates == {to_datetime(n) : n \in CalendarObsDates}

Scores == {1, 5}

Mentions ==
    {[gvkeyiid |-> k, date |-> d, text |-> t, score |-> s, ticker |-> TickerOf(k)] :
        k \in FillKeys, d \in MentionDates, t \in Texts, s \in Scores}

\* a number num / den, in lowest terms, den > 0
Fraction(num, den) ==
    [num |-> num \div Gcd(Abs(num), den), den |-> den \div Gcd(Abs(num), den)]

\* line 98: the keys of the groups of groupby(['gvkeyiid', 'date'])
group_keys(df) == {<<r.gvkeyiid, r.date>> : r \in DOMAIN df}

group(df, k) == {r \in DOMAIN df : <<r.gvkeyiid, r.date>> = k}

\* the sum of f over the rows of a group, each row as often as the frame has it
group_sum(df, k, f) == SumOver(group(df, k), [r \in group(df, k) |-> df[r] * f[r]])

\* ('sentiment', 'count'): line 95 gives every row a sentiment
group_count(df, k) == group_sum(df, k, [r \in group(df, k) |-> 1])

\* lines 95 and 98-103: the record of a group
agg(df, k) ==
    [gvkeyiid      |-> k[1],
     date          |-> k[2],
     sentiment     |-> Fraction(group_sum(df, k, [r \in group(df, k) |->
                                                     analyze_sentiment(r.text)]),
                                group_count(df, k)),
     mention_count |-> group_count(df, k),
     total_score   |-> group_sum(df, k, [r \in group(df, k) |-> r.score]),
     ticker        |-> TickerOf(k[1])]

\* a frame with one record for every mention
calculate_daily_sentiment_per_mention(mapped_df) ==
    [row \in {agg(SetToBag({r}), <<r.gvkeyiid, r.date>>) : r \in DOMAIN mapped_df}
        |-> SumOver({r \in DOMAIN mapped_df :
                        agg(SetToBag({r}), <<r.gvkeyiid, r.date>>) = row},
                    mapped_df)]

\* lines 87-108: the frame returned, as the bag of its records
calculate_daily_sentiment(mapped_df) ==
    IF mapped_df = EmptyBag THEN EmptyBag
    ELSE SetToBag({agg(mapped_df, k) : k \in group_keys(mapped_df)})

\* engine.calculate_daily_sentiment(mapped_df); one call is followed
CalculateDailySentiment(mapped_df) ==
    /\ Len(aggregations) < 1
    /\ aggregations' = Append(aggregations,
                              [mapped_df |-> mapped_df,
                               out |-> calculate_daily_sentiment(mapped_df)])
    /\ UNCHANGED <<alpha_vars, server_vars, script_vars, finter_vars>>

InitEngine == NoAlpha /\ ServerInit /\ ScriptInit /\ EngineInit /\ FinterInit

NextEngine ==
    \E mapped_df \in StoresOf(Mentions, MaxObs) : CalculateDailySentiment(mapped_df)

SpecEngine == InitEngine /\ [][NextEngine]_vars

-----------------------------------------------------------------------------
(* C27 *)

\* the mentions of the pair (key, date) in a frame, and their sentiments
MentionsOfPair(df, key, date) ==
    {r \in DOMAIN df : r.gvkeyiid = key /\ r.date = date}

NumberOfMentions(df, key, date) == SumOver(MentionsOfPair(df, key, date), df)

SumOfSentiments(df, key, date) ==
    SumOver(MentionsOfPair(df, key, date),
            [r \in MentionsOfPair(df, key, date) |-> df[r] * analyze_sentiment(r.text)])

\* C27: calculate_daily_sentiment returns exactly one record for every
\* (gvkeyiid, date) pair of its input and none for any other pair; the
\* record's sentiment is the mean of the pair's per-mention sentiments and its
\* mention_count the number of the pair's mentions; so the frame handed to
\* RedditSentimentAlpha has no duplicate (gvkeyiid, date) pair.
C27_OneRecordPerPair ==
    \A i \in 1..Len(aggregations) :
        LET df  == aggregations[i].mapped_df
            out == aggregations[i].out
        IN /\ \A m \in DOMAIN df : RowCount(out, m.date, m.gvkeyiid) = 1
           /\ \A r \in DOMAIN out :
                  /\ NumberOfMentions(df, r.gvkeyiid, r.date) > 0
                  /\ r.sentiment.num * NumberOfMentions(df, r.gvkeyiid, r.date)
                         = r.sentiment.den * SumOfSentiments(df, r.gvkeyiid, r.date)
                  /\ r.mention_count = NumberOfMentions(df, r.gvkeyiid, r.date)
           /\ ~HasDuplicates(out)

\* a frame in which one pair has two mentions of different sentiment
C27_Witness ==
    \E i \in 1..Len(aggregations) :
        \E r \in DOMAIN aggregations[i].out :
            /\ r.mention_count = 2
            /\ \A m \in DOMAIN aggregations[i].mapped_df :
                   analyze_sentiment(m.text) * r.sentiment.den # r.sentiment.num
            /\ BagCardinality(aggregations[i].out) = 1

\* a frame with two pairs
C27_WitnessTwoPairs ==
    \E i \in 1..Len(aggregations) : BagCardinality(aggregations[i].out) = 2

-----------------------------------------------------------------------------
(* FinterAPI.get_universe (finter_client.py lines 207-228).                 *)
(*                                                                         *)
(* The answer of /universe/list is held as the status of the request, the   *)
(* name of the column of identifiers it has and the identifiers in order,   *)
(* each as the string astype(str) makes of it.                              *)

\* identifiers of 5, 7 and 9 characters, with and without leading zeros
ApiIds == {"12345", "1690001", "1666010", "0012345", "001690001", "001666010"}

\* the sequences of at most n members of S
SeqsUpTo(S, n) == UNION {[1..m -> S] : m \in 0..n}

UniverseResponses ==
    {[status |-> "error", column |-> "", ids |-> <<>>]} \cup
    [status : {"ok"}, column : {"id_list", "gvkeyiid", "ids"},
     ids : SeqsUpTo(ApiIds, MaxObs)]

\* int(x) of a string of decimal digits
Digit(c) ==
    CASE c = "0" -> 0 [] c = "1" -> 1 [] c = "2" -> 2 [] c = "3" -> 3
      [] c = "4" -> 4 [] c = "5" -> 5 [] c = "6" -> 6 [] c = "7" -> 7
      [] c = "8" -> 8 [] c = "9" -> 9

RECURSIVE py_int(_)
py_int(x) ==
    IF Len(x) = 0 THEN 0
    ELSE 10 * py_int(SubSeq(x, 1, Len(x) - 1)) + Digit(SubSeq(x, Len(x), Len(x)))

\* str(n) of a natural number
RECURSIVE py_str(_)
py_str(n) ==
    IF n < 10 THEN SubSeq("0123456789", n + 1, n + 1)
    ELSE py_str(n \div 10) \o SubSeq("0123456789", (n % 10) + 1, (n % 10) + 1)

RECURSIVE zero_pad(_, _)
zero_pad(s, width) == IF Len(s) >= width THEN s ELSE zero_pad("0" \o s, width)

\* line 225: f"{int(x):09d}"
format_09d(x) == zero_pad(py_str(py_int(x)), 9)

\* line 224: df["gvkeyiid"].str.len().max() < 9, which is False for the NaN
\* that max gives on a frame without rows
max_len_below_9(ids) ==
    /\ Len(ids) > 0
    /\ RangeMax([i \in 1..Len(ids) |-> Len(ids[i])], 1, Len(ids)) < 9

\* lines 222-225
ensure_9_characters(ids) ==
    IF max_len_below_9(ids) THEN [i \in 1..Len(ids) |-> format_09d(ids[i])] ELSE ids

\* lines 207-228: the frame returned, as its columns and its gvkeyiid column,
\* or the error of the request
get_universe(response) ==
    IF response.status = "error"
    THEN [status |-> "raised", columns |-> {}, gvkeyiid |-> <<>>]
    ELSE IF response.column \in {"id_list", "gvkeyiid"}
    THEN [status |-> "returned", columns |-> {"gvkeyiid"},
          gvkeyiid |-> ensure_9_characters(response.ids)]
    ELSE [status |-> "returned", columns |-> {response.column}, gvkeyiid |-> <<>>]

\* finter.get_universe(), the endpoint answering response; one call is followed
GetUniverse(response) ==
    /\ Len(universes) < 1
    /\ universes' = Append(universes,
                           [response |-> response, out |-> get_universe(response)])
    /\ api_requests' = api_requests + 1
    /\ UNCHANGED <<ticker_cache, mappings>>
    /\ UNCHANGED <<alpha_vars, server_vars, script_vars, engine_vars>>

InitUniverse == NoAlpha /\ ServerInit /\ ScriptInit /\ EngineInit /\ FinterInit

NextUniverse == \E response \in UniverseResponses : GetUniverse(response)

SpecUniverse == InitUniverse /\ [][NextUniverse]_vars

-----------------------------------------------------------------------------
(* C28 *)

\* the calls of get_universe that returned a frame with a gvkeyiid column
UniverseCalls ==
    {i \in 1..Len(universes) :
        /\ universes[i].out.status = "returned"
        /\ "gvkeyiid" \in universes[i].out.columns}

\* C28: every gvkeyiid of the frame get_universe returns has 9 characters,
\* the identifiers shorter than 9 being left-padded with zeros, for every mix
\* of lengths in the answer of the API.
C28_UniverseIdsHave9Characters ==
    \A i \in UniverseCalls :
        LET ids == universes[i].response.ids
            out == universes[i].out.gvkeyiid
        IN /\ Len(out) = Len(ids)
           /\ \A j \in 1..Len(ids) :
                  /\ Len(out[j]) = 9
                  /\ Len(ids[j]) < 9 => out[j] = zero_pad(ids[j], 9)

\* what holds: the identifiers are padded when all of them are shorter than 9
C28_PaddedWhenAllShorter ==
    \A i \in UniverseCalls :
        LET ids == universes[i].response.ids
            out == universes[i].out.gvkeyiid
        IN (\A j \in 1..Len(ids) : Len(ids[j]) < 9) =>
               /\ Len(out) = Len(ids)
               /\ \A j \in 1..Len(ids) : out[j] = zero_pad(ids[j], 9)

\* an answer with two identifiers shorter than 9, of different lengths
C28_WitnessAllShorter ==
    \E i \in UniverseCalls :
        /\ Len(universes[i].response.ids) = 2
        /\ Len(universes[i].response.ids[1]) < Len(universes[i].response.ids[2])
        /\ Len(universes[i].response.ids[2]) < 9

-----------------------------------------------------------------------------
(* FinterAPI.build_ticker_mapping (finter_client.py lines 67-117).          *)
(*                                                                         *)
(* The universe has 150 identifiers, so that a build converts them in two   *)
(* batches.  A dict is held as its class, the number of the call that made  *)
(* it, which tells two dicts apart, and its entries, a function from        *)
(* ticker to identifier.                                                    *)

\* line 86
batch_size == 100

\* the answer of /universe/list to a build: 150 identifiers of 9 characters
UniverseIds == [i \in 1..150 |-> format_09d(py_str(i))]

\* the answers of /universe/list to a build: the identifiers, an error, or
\* identifiers in a column get_universe does not know
universe_response(reply) ==
    IF reply = "error" THEN [status |-> "error", column |-> "", ids |-> <<>>]
    ELSE [status |-> "ok", column |-> reply, ids |-> UniverseIds]

\* line 79: what get_universe makes of each answer
universe_df ==
    [reply \in {"id_list", "ids", "error"} |->
        get_universe(universe_response(reply))] @@ <<>>

\* lines 79 and 84: get_universe raises, or the frame it returns has no
\* gvkeyiid column and universe_df["gvkeyiid"] raises KeyError
universe_raises(df) == df.status = "raised" \/ "gvkeyiid" \notin df.columns

\* the arguments of a call: max_securities, use_cache and date ("" is None)
MappingCalls ==
    [max_securities : {120, 500}, use_cache : BOOLEAN, date : {"", "20240105"}]

\* what the API answers during a call: the /universe/list request, and each
\* /id/convert request, with a code_mapped dict or with an error
ApiAnswers ==
    [universe : {"id_list", "ids", "error"},
     convert  : [1..2 -> {"code_mapped", "error"}]]

\* the shortcode /id/convert gives an identifier; every 50th has none
shortcode(id) ==
    IF py_int(id) % 50 = 0 THEN "" ELSE "t" \o py_str(py_int(id))

\* ticker.upper() of a shortcode
upper(ticker) ==
    IF Head(ticker) = "t" THEN "T" \o Tail(ticker) ELSE ticker

\* lines 80-82
head(ids, max_securities) ==
    IF max_securities # 0 /\ Len(ids) > max_securities
    THEN SubSeq(ids, 1, max_securities) ELSE ids

\* line 88: the number of batches of range(0, n, batch_size)
batches(n) == (n + batch_size - 1) \div batch_size

\* lines 88-113: the positions of the identifiers that reach the mapping:
\* those of the batches the API answered, that have a ticker (line 106)
mapped_positions(ids, convert) ==
    {j \in 1..Len(ids) :
        /\ convert[(j - 1) \div batch_size + 1] = "code_mapped"
        /\ shortcode(ids[j]) # ""}

\* lines 85-113: ticker_mapping[ticker.upper()] = src_id, in the order of the
\* identifiers, a later assignment to a ticker replacing an earlier one
ticker_mapping(ids, convert) ==
    LET upper_at == [j \in mapped_positions(ids, convert) |->
                        upper(shortcode(ids[j]))]
    IN [ticker \in {upper_at[j] : j \in DOMAIN upper_at} |->
           ids[SetMax({j \in DOMAIN upper_at : upper_at[j] = ticker})]] @@ <<>>

\* the mappings the builds can make, by max_securities and the API's answers
ticker_mappings ==
    [max_securities \in {120, 500}, convert \in [1..2 -> {"code_mapped", "error"}] |->
        ticker_mapping(head(universe_df["id_list"].gvkeyiid, max_securities),
                       convert)] @@ <<>>

\* a reference to an object
Ref(object) == [class |-> object.class, n |-> object.n]

\* line 68, with the cache test left out
cache_hit_never(use_cache, cache) == FALSE

\* line 68
cache_hit(use_cache, cache) == use_cache /\ cache.class # "NoneType"

\* lines 67-117: the outcome of a call, the n-th, on an object whose cache is
\* cache: what it returns or that it raises, the cache afterwards and the
\* number of requests it sent.  An exception of lines 79-84 is not caught.
\* The universe the model answers has the same identifiers in every build.
build_ticker_mapping(args, api, cache, n) ==
    IF cache_hit(args.use_cache, cache)
    THEN [status |-> "returned", returned |-> Ref(cache), cache |-> cache,
          requests |-> 0]
    ELSE IF universe_raises(universe_df[api.universe])
    THEN [status |-> "raised", returned |-> Ref(None), cache |-> cache,
          requests |-> 1]
    ELSE [status |-> "returned",
          returned |-> [class |-> "dict", n |-> n],
          cache |-> [class |-> "dict", n |-> n,
                     entries |-> ticker_mappings[args.max_securities, api.convert]],
          requests |-> 1 + batches(Len(head(universe_df[api.universe].gvkeyiid,
                                            args.max_securities)))]

\* finter.build_ticker_mapping(max_securities, use_cache, date); three calls
\* are followed
BuildTickerMapping(args, api) ==
    /\ Len(mappings) < 3
    /\ ticker_cache' =
           build_ticker_mapping(args, api, ticker_cache, Len(mappings) + 1).cache
    /\ mappings' =
           Append(mappings,
                  [args         |-> args,
                   cache_before |-> Ref(ticker_cache),
                   cache_after  |-> Ref(ticker_cache'),
                   status       |-> build_ticker_mapping(args, api, ticker_cache,
                                                         Len(mappings) + 1).status,
                   returned     |-> build_ticker_mapping(args, api, ticker_cache,
                                                         Len(mappings) + 1).returned,
                   requests     |-> build_ticker_mapping(args, api, ticker_cache,
                                                         Len(mappings) + 1).requests,
                   entries      |-> IF ticker_cache'.class = "NoneType" THEN 0
                                    ELSE Cardinality(DOMAIN ticker_cache'.entries)])
    /\ api_requests' = api_requests + mappings'[Len(mappings')].requests
    /\ UNCHANGED universes
    /\ UNCHANGED <<alpha_vars, server_vars, script_vars, engine_vars>>

InitMapping == NoAlpha /\ ServerInit /\ ScriptInit /\ EngineInit /\ FinterInit

NextMapping ==
    \E args \in MappingCalls, api \in ApiAnswers : BuildTickerMapping(args, api)

SpecMapping == InitMapping /\ [][NextMapping]_vars

-----------------------------------------------------------------------------
(* C29 *)

\* the call made a dict: it returned after sending requests
Built(c) == c.status = "returned" /\ c.requests > 0

\* the calls before the i-th that completed a build
BuildsBefore(i) == {j \in 1..(i - 1) : Built(mappings[j])}

\* a call with use_cache=True after a completed build returns the dict of the
\* latest completed build, sends no request and leaves the cache as it was
ServedFromCache(i) ==
    (mappings[i].args.use_cache /\ BuildsBefore(i) # {}) =>
        /\ mappings[i].status = "returned"
        /\ mappings[i].returned = [class |-> "dict", n |-> SetMax(BuildsBefore(i))]
        /\ mappings[i].requests = 0
        /\ mappings[i].cache_after = mappings[i].cache_before

\* the call made a new dict, returned it and left it in the cache
Rebuilt(i) ==
    /\ mappings[i].status = "returned"
    /\ mappings[i].returned = [class |-> "dict", n |-> i]
    /\ mappings[i].cache_after = mappings[i].returned

\* C29 as stated: once a build has completed, every later call with
\* use_cache=True returns that same mapping object without any API request,
\* whatever max_securities or date it passes; a call with use_cache=False
\* always rebuilds from the API and replaces the cached mapping.
C29_CacheServesAndRebuildReplaces ==
    \A i \in 1..Len(mappings) :
        /\ ServedFromCache(i)
        /\ ~mappings[i].args.use_cache =>
               mappings[i].requests > 0 /\ Rebuilt(i)

\* C29, amended: once a build has completed, every later call with
\* use_cache=True returns that same mapping object without any API request,
\* whatever max_securities or date it passes; a call with use_cache=False
\* always sends the universe request: when it returns it has rebuilt the
\* mapping from the API and replaced the cached mapping, and when it raises
\* the cached mapping is left as it was.
C29_CacheServesAndRebuildReplacesOnReturn ==
    \A i \in 1..Len(mappings) :
        /\ ServedFromCache(i)
        /\ ~mappings[i].args.use_cache =>
               /\ mappings[i].requests > 0
               /\ mappings[i].status = "returned" => Rebuilt(i)
               /\ mappings[i].status = "raised" =>
                      mappings[i].cache_after = mappings[i].cache_before

\* a build in which the second batch failed, then a call with use_cache=True
\* and another max_securities and date, then a call with use_cache=False that
\* replaces the mapping
C29_Witness ==
    /\ Len(mappings) = 3
    /\ Built(mappings[1])
    /\ mappings[1].entries = 98
    /\ mappings[2].args.use_cache
    /\ mappings[2].args.max_securities # mappings[1].args.max_securities
    /\ mappings[2].args.date # mappings[1].args.date
    /\ mappings[2].returned = mappings[1].returned
    /\ ~mappings[3].args.use_cache
    /\ Built(mappings[3])
    /\ mappings[3].cache_after # mappings[2].cache_after

\* a build in which every batch failed, then a call served the empty mapping
C29_WitnessEmptyMapping ==
    /\ Len(mappings) >= 2
    /\ Built(mappings[1])
    /\ mappings[1].entries = 0
    /\ mappings[2].args.use_cache
    /\ mappings[2].requests = 0
    /\ mappings[2].returned = mappings[1].returned

====
